---- MODULE Spec2Model ----
(***************************************************************************)
(* State-machine model of the trading system's instrument state            *)
(* (core/trading_pair.py: TradingPair, TradingPairManager), of its signal  *)
(* manager (trading_analyzer_fixed.py: SignalUniquenesSystem,              *)
(* SignalValidator, SignalManager) and of its data streamer                *)
(* (core/data_streamer.py: DataSource, MultiPairDataStreamer).             *)
(*                                                                         *)
(* datetime.now() is counted in units of 30 minutes and time.time() in     *)
(* units of 0.5 s.  Prices are integers counted in thousandths of a        *)
(* currency unit (100000 is 100.000).                                      *)
(***************************************************************************)
EXTENDS Integers, Sequences, FiniteSets, TLC

VARIABLES
    pairs,              \* TradingPairManager.pairs: symbol -> TradingPair fields
    now,                \* datetime.now(), in units of 30 minutes
    active_signals,     \* SignalManager.active_signals: set of in-memory signals (one per hash)
    signal_hashes,      \* SignalUniquenesSystem.signal_hashes
    pattern_cooldowns,  \* SignalUniquenesSystem.pattern_cooldowns: pattern -> time, 0 - 1 when absent
    db,                 \* rows of table trading_signals (signal_hash UNIQUE)
    created,            \* history: every signal create_signal has returned, with its process run
    closed,             \* history: the signal objects update_signals closed in this process run
    run,                \* number of process restarts so far
    analysis_count,     \* TradingAnalyzer.analysis_count
    sources,            \* MultiPairDataStreamer.data_sources: name -> DataSource fields
    streamer,           \* MultiPairDataStreamer fields
    loops,              \* the threads created with target _streaming_loop, in order of creation
    tasks,              \* the _collect_pair_data calls submitted to a worker pool
    callers,            \* threads that call start_all_enabled, start_pair and stop_all
    workers,            \* threads that call fetch_data of a source
    clock,              \* time.time(), in units of 0.5 s
    requests,           \* history: the HTTP requests started by _make_request
    halted,             \* history: how far the last stop_all has come since the last start
    store,              \* DatabaseManager: the database file, its backup and _lock
    dbthreads,          \* threads that call the DatabaseManager, each with its connection
    system              \* SystemManager: is_running and what its last control call returned

pairVars == <<pairs>>
sigVars  == <<now, active_signals, signal_hashes, pattern_cooldowns, db, created, closed, run,
              analysis_count>>
strVars  == <<sources, streamer, loops, tasks, callers, workers, clock, requests, halted>>
stoVars  == <<store, dbthreads>>
sysVars  == <<system>>
vars     == <<pairs, now, active_signals, signal_hashes, pattern_cooldowns, db, created, closed, run,
             analysis_count,
             sources, streamer, loops, tasks, callers, workers, clock, requests, halted,
             store, dbthreads, system>>

(***************************************************************************)
(* Bounds of the model.                                                    *)
(***************************************************************************)
MaxTicks     == 3       \* ticks delivered to one pair under SpecPair
MaxTicksHist == 1002    \* ticks delivered to the pair under SpecHist
MaxCreated   == 2       \* signals created in one behaviour of SpecSig
MaxRestarts  == 1       \* process restarts
MaxCreatedCap == 11     \* signals created in one behaviour of SpecCap
MaxRequests  == 6       \* HTTP requests started in one behaviour of SpecSrc
MaxClockSrc  == 4       \* last value of time.time() under SpecSrc
MaxClock     == 6       \* last value of time.time() under the streamer's specifications
MaxLoops     == 2       \* loop threads created in one behaviour
MaxClockRace == 4       \* last value of time.time() under SpecRace
MaxClockCtl  == 4       \* last value of time.time() under SpecCtl
MaxTicksIngest == 6     \* ticks delivered to the pair under SpecIngest
MaxClockIngest == 12    \* last value of time.time() under SpecIngest
MaxTicksErr  == 11      \* ticks delivered to the pair under SpecErr
MaxRows      == 3       \* rows offered to the price_data table under SpecBatch
MaxRowsStore == 2       \* rows offered under SpecStore
MaxRowsRetry == 3       \* statements run under SpecRetry
MaxHashes    == 1001    \* hashes offered to the uniqueness set under SpecHash
MaxAnalyses  == 3       \* analyses run in one behaviour of SpecPattern
MaxBatch     == 2       \* longest list given to save_price_data_batch
MaxCompact   == 1001    \* candidates offered to create_signal under SpecCompact
MaxClockLoop == 70      \* last value of time.time() under SpecLoop
MaxTicksLoop == 2       \* ticks delivered to the pair under SpecLoop

(***************************************************************************)
(* core/trading_pair.py                                                    *)
(***************************************************************************)
ENABLED_     == "enabled"
DISABLED     == "disabled"
ERROR        == "error"
MAINTENANCE  == "maintenance"
PairStatus   == {ENABLED_, DISABLED, ERROR, MAINTENANCE}

\* None, where the code holds a datetime or nothing
NoTime == 0 - 1

max_history_size    == 1000
default_max_errors  == 10
default_update_interval == 5

\* _initialize_default_pairs: one pair constructed enabled, one constructed disabled
Symbols == {"BTCUSDT", "SOLUSDT"}
default_enabled(sym) == sym = "BTCUSDT"

\* TradingPair.__init__
NewPair(en) ==
    [ enabled            |-> en,
      status             |-> IF en THEN ENABLED_ ELSE DISABLED,
      is_streaming       |-> FALSE,
      last_update        |-> NoTime,
      error_count        |-> 0,
      update_interval    |-> default_update_interval,
      max_errors         |-> default_max_errors,
      price_history      |-> << >>,
      total_updates      |-> 0,
      successful_updates |-> 0,
      failed_updates     |-> 0 ]

\* TradingPair.enable
enable(p) == [p EXCEPT !.enabled = TRUE, !.status = ENABLED_, !.error_count = 0]

\* TradingPair.disable
disable(p) == [p EXCEPT !.enabled = FALSE, !.status = DISABLED, !.is_streaming = FALSE]

\* TradingPair.set_maintenance
set_maintenance(p) == [p EXCEPT !.status = MAINTENANCE, !.is_streaming = FALSE]

\* TradingPair._handle_error
handle_error(p) ==
    LET q == [p EXCEPT !.error_count = @ + 1, !.failed_updates = @ + 1]
    IN  IF q.error_count >= q.max_errors THEN set_maintenance(q) ELSE q

\* reset_errors that leaves MAINTENANCE whether the pair is enabled or not
reset_errors_always(p) ==
    LET q == [p EXCEPT !.error_count = 0]
    IN  IF q.status = MAINTENANCE THEN [q EXCEPT !.status = ENABLED_] ELSE q

\* TradingPair.reset_errors
reset_errors(p) ==
    LET q == [p EXCEPT !.error_count = 0]
    IN  IF q.status = MAINTENANCE /\ q.enabled THEN [q EXCEPT !.status = ENABLED_] ELSE q

\* TradingPair.start_streaming: the pair afterwards (unchanged when it returns False)
start_streaming(p) ==
    IF ~p.enabled THEN p
    ELSE IF p.status = MAINTENANCE THEN p
    ELSE [p EXCEPT !.is_streaming = TRUE, !.status = ENABLED_]

\* TradingPair.stop_streaming
stop_streaming(p) == [p EXCEPT !.is_streaming = FALSE]

\* the slice taken from the wrong end: price_history[:max_history_size]
KeepOldest(h) ==
    IF Len(h) > max_history_size
    THEN SubSeq(h, 1, max_history_size)
    ELSE h

\* the slice price_history[-max_history_size:] of add_price_data
KeepNewest(h) ==
    IF Len(h) > max_history_size
    THEN SubSeq(h, Len(h) - max_history_size + 1, Len(h))
    ELSE h

\* TradingPair.get_price_range(hours): TRUE iff the call raises.  It evaluates
\* cutoff_time.replace(hour=cutoff_time.hour - hours); datetime.replace raises
\* ValueError unless the new hour is in 0..23.
get_price_range_raises(hour_now, hours) == ~(hour_now - hours \in 0..23)

\* hour of the day of datetime.now()
HourOfDay(t) == (t \div 2) % 24

\* TradingPair.add_price_data, with _update_stats and _calculate_24h_stats:
\* the tick is appended and the history cut; _update_stats counts the update
\* and calls get_price_range(24); when that raises, the except branch runs
\* _handle_error and the lines after _update_stats are skipped.
add_price_data(p, tick, t) ==
    LET q == [p EXCEPT !.price_history = KeepNewest(Append(@, tick)),
                       !.total_updates = @ + 1]
    IN  IF get_price_range_raises(HourOfDay(t), 24)
        THEN handle_error(q)
        ELSE [q EXCEPT !.last_update = t,
                       !.successful_updates = @ + 1,
                       !.error_count = 0]

\* TradingPair.is_streaming_healthy at time t.  datetime.now() is counted in
\* half hours, so the seconds since last_update are 1800 for each unit; the
\* test of the last update is skipped while last_update is None.
is_streaming_healthy(p, t) ==
    IF ~p.is_streaming THEN FALSE
    ELSE IF p.last_update # NoTime /\ (t - p.last_update) * 1800 > p.update_interval * 3
         THEN FALSE
    ELSE IF p.error_count >= p.max_errors THEN FALSE
    ELSE TRUE

\* TradingPair.update_config as its caller initialize_trading_pairs uses it:
\* the keys of a pair's 'settings'
update_config(p, interval, maxerr) ==
    [p EXCEPT !.update_interval = interval, !.max_errors = maxerr]

\* TradingPairManager.add_pair on a symbol that exists already
add_pair_existing(p, en) == [p EXCEPT !.enabled = en]

\* TradingPairManager.import_config for one symbol that exists already
import_config(p, en, interval, maxerr) ==
    [add_pair_existing(p, en) EXCEPT !.update_interval = interval, !.max_errors = maxerr]

(***************************************************************************)
(* trading_analyzer_fixed.py: SignalUniquenesSystem                        *)
(***************************************************************************)
DOUBLE_BOTTOM          == "DOUBLE_BOTTOM"
HEAD_AND_SHOULDERS     == "HEAD_AND_SHOULDERS"
TRIANGLE_BREAKOUT_UP   == "TRIANGLE_BREAKOUT_UP"
TRIANGLE_BREAKOUT_DOWN == "TRIANGLE_BREAKOUT_DOWN"
INDICATORS_BUY         == "INDICATORS_BUY"
INDICATORS_SELL        == "INDICATORS_SELL"
\* a pattern name that cooldown_periods does not list
MOMENTUM_SELL          == "MOMENTUM_SELL"

\* pattern.endswith('_BUY'), pattern.endswith('_SELL')
EndsWithBUY(pattern)  == pattern \in {INDICATORS_BUY}
EndsWithSELL(pattern) == pattern \in {INDICATORS_SELL, MOMENTUM_SELL}

\* cooldown_periods, in units of 30 minutes
cooldown_DOUBLE_BOTTOM      == 8
cooldown_HEAD_AND_SHOULDERS == 12
cooldown_TRIANGLE_BREAKOUT  == 4
cooldown_INDICATORS         == 1
cooldown_default            == 2

\* cooldown_periods.get(pattern_type, timedelta(hours=1))
cooldown_periods(pattern) ==
    CASE pattern = DOUBLE_BOTTOM          -> cooldown_DOUBLE_BOTTOM
      [] pattern = HEAD_AND_SHOULDERS     -> cooldown_HEAD_AND_SHOULDERS
      [] pattern = TRIANGLE_BREAKOUT_UP   -> cooldown_TRIANGLE_BREAKOUT
      [] pattern = TRIANGLE_BREAKOUT_DOWN -> cooldown_TRIANGLE_BREAKOUT
      [] pattern = INDICATORS_BUY         -> cooldown_INDICATORS
      [] pattern = INDICATORS_SELL        -> cooldown_INDICATORS
      [] OTHER                            -> cooldown_default

\* round(x, 2) of a price counted in thousandths: the nearest hundredth.
\* (A price ending in exactly 5 thousandths is rounded by its binary
\* representation; the prices of this model do not end in 5.)
Round2(x) == ((x + 5) \div 10) * 10

\* SignalUniquenesSystem.generate_signal_hash: the MD5 digest is modelled by
\* the string it digests (pattern and the four rounded prices)
generate_signal_hash(pattern_data, current_price) ==
    << pattern_data.pattern, Round2(pattern_data.entry), Round2(pattern_data.target),
       Round2(pattern_data.stop), Round2(current_price) >>

\* SignalUniquenesSystem.is_signal_unique
is_signal_unique(hashes, signal_hash) == signal_hash \notin hashes

max_signal_hashes  == 1000
kept_signal_hashes == 800

\* SignalUniquenesSystem.add_signal_hash: the sets the call may leave.  Over
\* the cap it keeps list(set)[-800:], and a set lists its members in no
\* order the program controls: any 800 of them.
add_signal_hash(hashes, signal_hash) ==
    LET all == hashes \cup {signal_hash}
    IN  IF Cardinality(all) > max_signal_hashes
        THEN { K \in SUBSET all : Cardinality(K) = kept_signal_hashes }
        ELSE { all }

\* the window of every pattern taken as the shortest one (30 minutes)
is_pattern_in_cooldown_short(cooldowns, pattern, t) ==
    IF cooldowns[pattern] = NoTime THEN FALSE
    ELSE t - cooldowns[pattern] < cooldown_INDICATORS

\* SignalUniquenesSystem.is_pattern_in_cooldown
is_pattern_in_cooldown(cooldowns, pattern, t) ==
    IF cooldowns[pattern] = NoTime THEN FALSE
    ELSE t - cooldowns[pattern] < cooldown_periods(pattern)

\* SignalUniquenesSystem.set_pattern_cooldown
set_pattern_cooldown(cooldowns, pattern, t) == [cooldowns EXCEPT ![pattern] = t]

(***************************************************************************)
(* trading_analyzer_fixed.py: SignalValidator                              *)
(***************************************************************************)
Abs(x) == IF x < 0 THEN 0 - x ELSE x

\* the branch test of validate_signal_parameters, _check_signal_activation,
\* _check_target_hit, _check_stop_hit and _calculate_profit_loss
IsBuyPattern(pattern) == EndsWithBUY(pattern) \/ pattern = DOUBLE_BOTTOM

\* the validation without its fifth check (risk at most 5 % of entry)
validate_signal_parameters_no_risk_cap(pattern_data, current_price, indicators) ==
    LET entry  == pattern_data.entry
        target == pattern_data.target
        stop   == pattern_data.stop
        risk   == Abs(entry - stop)
        reward == Abs(target - entry)
    IN  /\ ~(\E price \in {entry, target, stop, current_price} : price <= 0)
        /\ ~(Abs(entry - current_price) * 100 > 2 * current_price)
        /\ IF IsBuyPattern(pattern_data.pattern)
           THEN ~(target <= entry) /\ ~(stop >= entry)
           ELSE ~(target >= entry) /\ ~(stop <= entry)
        /\ risk > 0
        /\ ~(2 * reward < 3 * risk)
        /\ ~(indicators.nonempty /\ indicators.ATR # 0 /\ 2 * risk < indicators.ATR)

\* SignalValidator.validate_signal_parameters (True iff it returns True).
\* indicators.ATR = 0 stands for an absent, None or zero ATR.
validate_signal_parameters(pattern_data, current_price, indicators) ==
    LET entry  == pattern_data.entry
        target == pattern_data.target
        stop   == pattern_data.stop
        risk   == Abs(entry - stop)
        reward == Abs(target - entry)
    IN  /\ ~(\E price \in {entry, target, stop, current_price} : price <= 0)
        /\ ~(Abs(entry - current_price) * 100 > 2 * current_price)
        /\ IF IsBuyPattern(pattern_data.pattern)
           THEN ~(target <= entry) /\ ~(stop >= entry)
           ELSE ~(target >= entry) /\ ~(stop <= entry)
        /\ risk > 0
        /\ ~(2 * reward < 3 * risk)
        /\ ~(risk * 100 > 5 * entry)
        /\ ~(indicators.nonempty /\ indicators.ATR # 0 /\ 2 * risk < indicators.ATR)

\* SignalValidator.validate_market_conditions (True iff it returns True).
\* BB_UPPER / BB_LOWER = 0 stand for an absent, None or zero band.
validate_market_conditions(indicators) ==
    /\ indicators.nonempty
    /\ indicators.required
    /\ ~( /\ indicators.BB_UPPER # 0
          /\ indicators.BB_LOWER # 0
          /\ IF indicators.BB_LOWER > 0
             THEN (indicators.BB_UPPER - indicators.BB_LOWER) * 100 > 10 * indicators.BB_LOWER
             ELSE (indicators.BB_UPPER - indicators.BB_LOWER) * 100 < 10 * indicators.BB_LOWER )

(***************************************************************************)
(* trading_analyzer_fixed.py: TradingSignal, SignalManager                 *)
(***************************************************************************)
ACTIVE     == "ACTIVE"
HIT_TARGET == "HIT_TARGET"
HIT_STOP   == "HIT_STOP"
EXPIRED    == "EXPIRED"

Patterns == { DOUBLE_BOTTOM, HEAD_AND_SHOULDERS, TRIANGLE_BREAKOUT_UP,
              TRIANGLE_BREAKOUT_DOWN, INDICATORS_BUY, INDICATORS_SELL, MOMENTUM_SELL }

max_active_signals == 10

\* expiry ages of update_signals (24 h, 48 h), in units of 30 minutes
max_age_not_activated == 48
max_age_activated     == 96

\* a profit or loss in percent, kept as the exact fraction num / den
Pct(num, den) == [num |-> num, den |-> den]
ZeroPct == Pct(0, 1)

\* TradingSignal.__init__ (indicators_used and risk_reward_ratio are derived
\* from the other arguments and left out)
TradingSignal(t, price, pattern_data, signal_hash) ==
    [ signal_hash  |-> signal_hash,
      timestamp    |-> t,
      price        |-> price,
      pattern_type |-> pattern_data.pattern,
      entry_price  |-> pattern_data.entry,
      target_price |-> pattern_data.target,
      stop_loss    |-> pattern_data.stop,
      confidence   |-> pattern_data.confidence,
      status       |-> ACTIVE,
      created_at   |-> t,
      closed_at    |-> NoTime,
      profit_loss  |-> ZeroPct,
      activated    |-> FALSE ]

\* active_signals[signal_hash] = signal
DictPut(d, k, v) == [h \in DOMAIN d \cup {k} |-> IF h = k THEN v ELSE d[h]]

\* del active_signals[signal_hash]
DictDel(d, ks) == [h \in DOMAIN d \ ks |-> d[h]]

\* SignalManager._has_overlapping_signal
has_overlapping_signal(active, pattern_data) ==
    \E h \in DOMAIN active :
        LET signal == active[h] IN
        /\ Abs(signal.entry_price - pattern_data.entry) * 100 < pattern_data.entry
        /\ \/ EndsWithBUY(pattern_data.pattern) /\ EndsWithBUY(signal.pattern_type)
           \/ EndsWithSELL(pattern_data.pattern) /\ EndsWithSELL(signal.pattern_type)
           \/ pattern_data.pattern = DOUBLE_BOTTOM /\ signal.target_price > signal.entry_price
           \/ pattern_data.pattern = HEAD_AND_SHOULDERS /\ signal.target_price < signal.entry_price

\* the limit of active signals tested with > in place of >=
can_create_signal_off_by_one(active, hashes, cooldowns, pattern_data, current_price, indicators, t) ==
    /\ ~(Cardinality(DOMAIN active) > max_active_signals)
    /\ ~is_pattern_in_cooldown(cooldowns, pattern_data.pattern, t)
    /\ validate_signal_parameters(pattern_data, current_price, indicators)
    /\ validate_market_conditions(indicators)
    /\ is_signal_unique(hashes, generate_signal_hash(pattern_data, current_price))
    /\ ~has_overlapping_signal(active, pattern_data)

\* SignalManager.can_create_signal (True iff it returns True)
can_create_signal(active, hashes, cooldowns, pattern_data, current_price, indicators, t) ==
    /\ ~(Cardinality(DOMAIN active) >= max_active_signals)
    /\ ~is_pattern_in_cooldown(cooldowns, pattern_data.pattern, t)
    /\ validate_signal_parameters(pattern_data, current_price, indicators)
    /\ validate_market_conditions(indicators)
    /\ is_signal_unique(hashes, generate_signal_hash(pattern_data, current_price))
    /\ ~has_overlapping_signal(active, pattern_data)

\* SignalManager.save_signal: the INSERT; a row with the same signal_hash
\* makes it fail on the UNIQUE constraint, which is logged and swallowed
save_signal(rows, signal) ==
    IF signal.signal_hash \in DOMAIN rows THEN rows
    ELSE DictPut(rows, signal.signal_hash, signal)

\* SignalManager.update_signal_in_db: UPDATE ... WHERE signal_hash = ?
update_signal_in_db(rows, signal) ==
    IF signal.signal_hash \in DOMAIN rows
    THEN [rows EXCEPT ![signal.signal_hash] =
            [@ EXCEPT !.status = signal.status, !.closed_at = signal.closed_at,
                      !.profit_loss = signal.profit_loss, !.activated = signal.activated]]
    ELSE rows

\* SignalManager._check_signal_activation (tolerance 0.1 %)
check_signal_activation(signal, current_price) ==
    IF IsBuyPattern(signal.pattern_type)
    THEN current_price * 1000 >= signal.entry_price * 999
    ELSE current_price * 1000 <= signal.entry_price * 1001

\* SignalManager._check_target_hit
check_target_hit(signal, current_price) ==
    IF IsBuyPattern(signal.pattern_type)
    THEN current_price >= signal.target_price
    ELSE current_price <= signal.target_price

\* SignalManager._check_stop_hit
check_stop_hit(signal, current_price) ==
    IF IsBuyPattern(signal.pattern_type)
    THEN current_price <= signal.stop_loss
    ELSE current_price >= signal.stop_loss

\* the profit computed as for a purchase, whatever the pattern
calculate_profit_loss_long_only(signal, exit_price) ==
    Pct((exit_price - signal.entry_price) * 100, signal.entry_price)

\* SignalManager._calculate_profit_loss
calculate_profit_loss(signal, exit_price) ==
    IF IsBuyPattern(signal.pattern_type)
    THEN Pct((exit_price - signal.entry_price) * 100, signal.entry_price)
    ELSE Pct((signal.entry_price - exit_price) * 100, signal.entry_price)

\* the loop body with target and stop tested for signals not activated too
update_one_unactivated(signal, current_price, t) ==
    LET s1 == IF ~signal.activated /\ check_signal_activation(signal, current_price)
              THEN [signal EXCEPT !.activated = TRUE] ELSE signal
        s2 == IF check_target_hit(s1, current_price)
              THEN [s1 EXCEPT !.status = HIT_TARGET, !.closed_at = t,
                              !.profit_loss = calculate_profit_loss(s1, s1.target_price)]
              ELSE IF check_stop_hit(s1, current_price)
              THEN [s1 EXCEPT !.status = HIT_STOP, !.closed_at = t,
                              !.profit_loss = calculate_profit_loss(s1, s1.stop_loss)]
              ELSE s1
        max_age == IF s2.activated THEN max_age_activated ELSE max_age_not_activated
    IN  IF t - s2.created_at > max_age
        THEN [s2 EXCEPT !.status = EXPIRED, !.closed_at = t, !.profit_loss = ZeroPct]
        ELSE s2

\* the loop body with the 48 h timeout for every signal, activated or not
update_one_one_timeout(signal, current_price, t) ==
    LET s1 == IF ~signal.activated /\ check_signal_activation(signal, current_price)
              THEN [signal EXCEPT !.activated = TRUE] ELSE signal
        s2 == IF s1.activated
              THEN IF check_target_hit(s1, current_price)
                   THEN [s1 EXCEPT !.status = HIT_TARGET, !.closed_at = t,
                                   !.profit_loss = calculate_profit_loss(s1, s1.target_price)]
                   ELSE IF check_stop_hit(s1, current_price)
                   THEN [s1 EXCEPT !.status = HIT_STOP, !.closed_at = t,
                                   !.profit_loss = calculate_profit_loss(s1, s1.stop_loss)]
                   ELSE s1
              ELSE s1
    IN  IF t - s2.created_at > max_age_activated
        THEN [s2 EXCEPT !.status = EXPIRED, !.closed_at = t, !.profit_loss = ZeroPct]
        ELSE s2

\* the body of the loop of update_signals for one signal: the signal afterwards
update_one(signal, current_price, t) ==
    LET s1 == IF ~signal.activated /\ check_signal_activation(signal, current_price)
              THEN [signal EXCEPT !.activated = TRUE] ELSE signal
        s2 == IF s1.activated
              THEN IF check_target_hit(s1, current_price)
                   THEN [s1 EXCEPT !.status = HIT_TARGET, !.closed_at = t,
                                   !.profit_loss = calculate_profit_loss(s1, s1.target_price)]
                   ELSE IF check_stop_hit(s1, current_price)
                   THEN [s1 EXCEPT !.status = HIT_STOP, !.closed_at = t,
                                   !.profit_loss = calculate_profit_loss(s1, s1.stop_loss)]
                   ELSE s1
              ELSE s1
        max_age == IF s2.activated THEN max_age_activated ELSE max_age_not_activated
    IN  IF t - s2.created_at > max_age
        THEN [s2 EXCEPT !.status = EXPIRED, !.closed_at = t, !.profit_loss = ZeroPct]
        ELSE s2

\* rows in sequence through update_signal_in_db (the rows have distinct hashes)
RECURSIVE update_all_in_db(_, _)
update_all_in_db(rows, signals) ==
    IF signals = {} THEN rows
    ELSE LET s == CHOOSE x \in signals : TRUE
         IN  update_all_in_db(update_signal_in_db(rows, s), signals \ {s})

\* SignalManager._load_active_signals: the signal built from one row
load_signal(row) ==
    [ TradingSignal(row.timestamp, row.price,
                    [pattern |-> row.pattern_type, entry |-> row.entry_price,
                     target |-> row.target_price, stop |-> row.stop_loss,
                     confidence |-> row.confidence], row.signal_hash)
      EXCEPT !.status = row.status, !.created_at = row.created_at,
             !.activated = row.activated ]

\* the hash sets add_signal_hash may leave after it was called for each hash of hs
RECURSIVE add_signal_hashes(_, _)
add_signal_hashes(hashes, hs) ==
    IF hs = {} THEN { hashes }
    ELSE LET h == CHOOSE x \in hs : TRUE
         IN  UNION { add_signal_hashes(K, hs \ {h}) : K \in add_signal_hash(hashes, h) }

NoCooldowns == [p \in Patterns |-> NoTime]
EmptyDict   == [h \in {} |-> h]

(***************************************************************************)
(* core/data_streamer.py: DataSource                                       *)
(***************************************************************************)
Binance   == "Binance"
CoinGecko == "CoinGecko"
Simulated == "Simulated"

\* the order of priority taken from the wrong end
data_sources_reversed == <<Simulated, CoinGecko, Binance>>

\* MultiPairDataStreamer.data_sources, in their order of priority
data_sources == <<Binance, CoinGecko, Simulated>>

SourceNames == {Binance, CoinGecko, Simulated}

\* the sources whose fetch_data goes through _make_request
HttpSources == {Binance, CoinGecko}

\* DataSource.max_errors
source_max_errors == 5

\* rate_limit of the two sources that use it, in units of 0.5 s
binance_rate_limit   == 1
coingecko_rate_limit == 2
rate_limit(s) == IF s = Binance THEN binance_rate_limit ELSE coingecko_rate_limit

\* DataSource.__init__
NewSource == [error_count |-> 0, is_available |-> TRUE, last_request_time |-> 0]

\* DataSource._handle_error
source_handle_error(src) ==
    LET q == [src EXCEPT !.error_count = @ + 1]
    IN  IF q.error_count >= source_max_errors THEN [q EXCEPT !.is_available = FALSE] ELSE q

\* DataSource.reset_errors
source_reset_errors(src) == [src EXCEPT !.error_count = 0, !.is_available = TRUE]

\* DataSource._make_request after a good response: the two assignments
\* before return response.json()
request_succeeded(src) == [src EXCEPT !.error_count = 0, !.is_available = TRUE]

\* DataSource._make_request, rate limiting: the time at which the caller,
\* having read time.time() = t and last_request_time, is through its sleep
wake_time(src, s, t) ==
    IF t - src.last_request_time < rate_limit(s)
    THEN src.last_request_time + rate_limit(s)
    ELSE t

(***************************************************************************)
(* core/data_streamer.py: MultiPairDataStreamer                            *)
(***************************************************************************)
None == "None"
\* what a fetch_data call brings: nothing (it returns None after its request
\* failed), or raw data with a price
FAIL     == [ok |-> FALSE, price |-> 0]
Price(p) == [ok |-> TRUE, price |-> p]

\* update_interval = 5 s, the least value update_config accepts (1 s), and
\* the time.sleep(1) of the loop's except branch, in units of 0.5 s
streamer_update_interval == 10
min_update_interval      == 2
error_sleep              == 2

\* as_completed(futures, timeout=30)
as_completed_timeout     == 60

\* what the last _collect_pair_data call did (history), before any call
NoCollect ==
    [ called |-> FALSE, available |-> {}, outcome |-> <<>>, queried |-> <<>>,
      raw_data |-> FAIL, source |-> None, at |-> 0 ]

\* MultiPairDataStreamer.__init__.  executor and streaming_thread are 0 for
\* None, else the number of the pool / of the loop thread in order of creation.
NewStreamer ==
    [ is_running          |-> FALSE,
      update_interval     |-> streamer_update_interval,
      streaming_thread    |-> 0,
      stop_event          |-> FALSE,
      executor            |-> 0,
      pools_created       |-> 0,
      pools_shut          |-> {},
      total_requests      |-> 0,
      successful_requests |-> 0,
      failed_requests     |-> 0,
      last_update         |-> NoTime,
      last_collect        |-> NoCollect ]

\* _collect_pair_data from the i-th source on: the for loop over data_sources.
\* outcome[s] is what fetch_data of source s brings once it is called; the
\* raw_data returned is FAIL where the code returns None.
RECURSIVE collect_from(_, _, _, _, _)
collect_from(i, srcs, outcome, t, queried) ==
    IF i > Len(data_sources)
    THEN [sources |-> srcs, raw_data |-> FAIL, source |-> None, at |-> t, queried |-> queried]
    ELSE LET s == data_sources[i]
         IN  IF ~srcs[s].is_available
             THEN collect_from(i + 1, srcs, outcome, t, queried)
             ELSE IF s \in HttpSources
             THEN LET at      == wake_time(srcs[s], s, t)
                      stamped == [srcs EXCEPT ![s].last_request_time = at]
                  IN  IF outcome[s] = FAIL
                      THEN collect_from(i + 1, [stamped EXCEPT ![s] = source_handle_error(@)],
                                        outcome, at, Append(queried, s))
                      ELSE [sources  |-> [stamped EXCEPT ![s] = request_succeeded(@)],
                            raw_data |-> outcome[s], source |-> s, at |-> at,
                            queried  |-> Append(queried, s)]
             ELSE [sources |-> srcs, raw_data |-> outcome[s], source |-> s, at |-> t,
                   queried |-> Append(queried, s)]

\* MultiPairDataStreamer._collect_pair_data
collect_pair_data(srcs, outcome, t) == collect_from(1, srcs, outcome, t, << >>)

\* the PriceData that _collect_pair_data builds from raw_data; seq numbers
\* the ticks delivered to the pair
CollectedTick(p, r) ==
    [seq |-> p.total_updates + 1, price |-> r.raw_data.price, source |-> r.source, timestamp |-> r.at]

\* the history entry for a _collect_pair_data call
CollectRecord(srcs, outcome, r) ==
    [ called |-> TRUE, available |-> {s \in SourceNames : srcs[s].is_available},
      outcome |-> outcome, queried |-> r.queried, raw_data |-> r.raw_data, source |-> r.source,
      at |-> r.at ]

\* start_all_enabled without its first test
start_refused_never(st) == FALSE

\* start_all_enabled, its first test
start_refused(st) == st.is_running

\* pair.start_streaming() returns True
can_start_streaming(p) == p.enabled /\ p.status # MAINTENANCE

\* start_all_enabled: start_streaming called for each pair of get_enabled_pairs()
start_enabled_pairs(ps) ==
    [sym \in DOMAIN ps |-> IF ps[sym].enabled THEN start_streaming(ps[sym]) ELSE ps[sym]]

\* start_all_enabled: started_count
started_count(ps) == Cardinality({sym \in DOMAIN ps : can_start_streaming(ps[sym])})

\* start_all_enabled from self.is_running = True on: flags, a new pool, a new
\* loop thread (the n-th)
launch(st, n) ==
    [st EXCEPT !.is_running = TRUE, !.stop_event = FALSE,
               !.executor = st.pools_created + 1, !.pools_created = @ + 1,
               !.streaming_thread = n]

\* stop_all: the flags
signal_stop(st) == [st EXCEPT !.is_running = FALSE, !.stop_event = TRUE]

\* stop_all: stop_streaming for each pair of get_streaming_pairs()
stop_streaming_pairs(ps) ==
    [sym \in DOMAIN ps |-> IF ps[sym].is_streaming THEN stop_streaming(ps[sym]) ELSE ps[sym]]

\* executor.shutdown without waiting for the tasks
shutdown_nowait(ts, pool) == TRUE

\* executor.shutdown(wait=True) returns: no task of the pool is in flight
shutdown_done(ts, pool) == ~(\E task \in ts : task.pool = pool /\ task.state = "pending")

\* the while test of _streaming_loop
loop_continues(st) == st.is_running /\ ~st.stop_event

\* executor.submit raises: executor is None, or the pool was shut down
submit_raises(st) == st.executor = 0 \/ st.executor \in st.pools_shut

\* MultiPairDataStreamer.update_config(update_interval=seconds): max(1, int(...)),
\* given and kept in units of 0.5 s
streamer_update_config(st, interval) ==
    [st EXCEPT !.update_interval = IF interval < min_update_interval
                                   THEN min_update_interval ELSE interval]

\* the threads of the process besides the loop threads: two that call the
\* streamer's control methods, two of a worker pool
Callers == {"c1", "c2"}
Workers == {"w1", "w2"}

\* SystemManager.__init__; last_op and success record what the last call of
\* start, stop or start_pair returned
NewSystem == [is_running |-> FALSE, last_op |-> "none", success |-> FALSE]

\* a control thread outside any call; result and log are those of its last
\* start_all_enabled call
NewCaller == [pc |-> "idle", pool |-> 0, result |-> None, log |-> None]

\* a worker thread outside fetch_data
NewWorker == [pc |-> "idle", src |-> None, wake |-> 0]

\* time.time() when the process starts: later than any rate_limit after 0
ClockStart == 2

(***************************************************************************)
(* DatabaseManager: the price_data table, the connections that threading   *)
(* .local keeps one per thread, and _lock.  A row is named by the number   *)
(* of the tick it stores.  A connection's pending rows are those inserted  *)
(* in its open transaction and not yet committed; closing the connection   *)
(* rolls them back.                                                        *)
(***************************************************************************)
max_retries == 3
retry_delay == 1

DbThreads == {"t1", "t2"}
NoThread == "none"

\* the sizes of the lists given to save_price_data_batch
BatchLens == 0..MaxBatch

\* DatabaseManager.__init__ with a database file that holds no price rows;
\* backup is the content of the last file create_backup wrote
NewStore == [price_data |-> {}, lock |-> NoThread, backup |-> {}, has_backup |-> FALSE,
             next_row |-> 1, batches |-> {}]

NoReturn == [op |-> "none", ok |-> FALSE, count |-> 0]

\* a thread outside the DatabaseManager, with no connection yet
NewDbThread ==
    [ pc       |-> "idle",
      open     |-> FALSE,       \* _local.connection is not None
      pending  |-> {},          \* rows of the connection's open transaction
      attempt  |-> 0,           \* the loop variable of _execute_with_retry
      outcomes |-> << >>,       \* history: TRUE per attempt of this call that succeeded
      waits    |-> << >>,       \* history: the time.sleep calls of this call, in seconds
      rows     |-> {},          \* the rows of the statement being executed
      ret      |-> NoReturn ]

\* time.sleep(self.retry_delay) without the attempt factor
backoff_flat(attempt) == retry_delay

\* the argument of time.sleep after the failed attempt number `attempt`
\* (counted from 0): retry_delay * (attempt + 1)
backoff(attempt) == retry_delay * (attempt + 1)

\* _execute_with_retry: another attempt follows the failed one
retries_left(attempt) == attempt < max_retries - 1

\* SQLite admits one writer: a connection can insert only while no other
\* connection holds uncommitted rows
can_write(ths, t) == \A u \in DbThreads \ {t} : ths[u].pending = {}

\* the except branch of _execute_with_retry: the connection is closed and
\* forgotten, which rolls its transaction back
drop_connection(th) == [th EXCEPT !.open = FALSE, !.pending = {}]

\* the value save_price_data makes of _execute_with_retry's result:
\* result is not None
ExecReturn(ok) == [op |-> "save_price_data", ok |-> ok, count |-> IF ok THEN 1 ELSE 0]

(***************************************************************************)
(* Initial state: the pairs as _initialize_default_pairs constructs them,  *)
(* an empty signal store, a fresh SignalManager, a fresh streamer.         *)
(***************************************************************************)
Init ==
    /\ pairs = [sym \in Symbols |-> NewPair(default_enabled(sym))]
    /\ now = 0
    /\ active_signals = EmptyDict
    /\ signal_hashes = {}
    /\ pattern_cooldowns = NoCooldowns
    /\ db = EmptyDict
    /\ created = {}
    /\ closed = {}
    /\ run = 0
    /\ analysis_count = 0
    /\ sources = [s \in SourceNames |-> NewSource]
    /\ streamer = NewStreamer
    /\ loops = << >>
    /\ tasks = {}
    /\ callers = [c \in Callers |-> NewCaller]
    /\ workers = [w \in Workers |-> NewWorker]
    /\ clock = ClockStart
    /\ requests = {}
    /\ halted = "no"
    /\ store = NewStore
    /\ dbthreads = [t \in DbThreads |-> NewDbThread]
    /\ system = NewSystem

(***************************************************************************)
(* Operations on a pair                                                    *)
(***************************************************************************)
Enable(sym) ==
    /\ pairs' = [pairs EXCEPT ![sym] = enable(@)]
    /\ UNCHANGED <<sigVars, stoVars, sysVars, strVars>>

Disable(sym) ==
    /\ pairs' = [pairs EXCEPT ![sym] = disable(@)]
    /\ UNCHANGED <<sigVars, stoVars, sysVars, strVars>>

SetMaintenance(sym) ==
    /\ pairs' = [pairs EXCEPT ![sym] = set_maintenance(@)]
    /\ UNCHANGED <<sigVars, stoVars, sysVars, strVars>>

StartStreaming(sym) ==
    /\ pairs' = [pairs EXCEPT ![sym] = start_streaming(@)]
    /\ UNCHANGED <<sigVars, stoVars, sysVars, strVars>>

StopStreaming(sym) ==
    /\ pairs' = [pairs EXCEPT ![sym] = stop_streaming(@)]
    /\ UNCHANGED <<sigVars, stoVars, sysVars, strVars>>

ResetErrors(sym) ==
    /\ pairs' = [pairs EXCEPT ![sym] = reset_errors(@)]
    /\ UNCHANGED <<sigVars, stoVars, sysVars, strVars>>

\* a tick as it arrives: seq numbers the ticks delivered to the pair
Tick(sym, price) == [seq |-> pairs[sym].total_updates + 1, price |-> price]

\* add_price_data called with the next tick (any caller)
AddPriceData(sym, price) ==
    /\ pairs[sym].total_updates < MaxTicks
    /\ pairs' = [pairs EXCEPT ![sym] = add_price_data(@, Tick(sym, price), now)]
    /\ UNCHANGED <<sigVars, stoVars, sysVars, strVars>>

\* add_price_data called by DataStreamer._collect_all_data, which fetches for
\* the pairs that are streaming
CollectTick(sym, price) ==
    /\ pairs[sym].is_streaming
    /\ pairs[sym].total_updates < MaxTicksHist
    /\ pairs' = [pairs EXCEPT ![sym] = add_price_data(@, Tick(sym, price), now)]
    /\ UNCHANGED <<sigVars, stoVars, sysVars, strVars>>

UpdateConfig(sym, interval, maxerr) ==
    /\ pairs' = [pairs EXCEPT ![sym] = update_config(@, interval, maxerr)]
    /\ UNCHANGED <<sigVars, stoVars, sysVars, strVars>>

AddPairExisting(sym, en) ==
    /\ pairs' = [pairs EXCEPT ![sym] = add_pair_existing(@, en)]
    /\ UNCHANGED <<sigVars, stoVars, sysVars, strVars>>

ImportConfig(sym, en, interval, maxerr) ==
    /\ pairs' = [pairs EXCEPT ![sym] = import_config(@, en, interval, maxerr)]
    /\ UNCHANGED <<sigVars, stoVars, sysVars, strVars>>

\* inputs of the pair operations
TickPrices      == {45000000}
IntervalChoices == {5}
MaxErrorChoices == {2, 10}

NextPair ==
    \E sym \in Symbols :
        \/ Enable(sym)
        \/ Disable(sym)
        \/ SetMaintenance(sym)
        \/ StartStreaming(sym)
        \/ StopStreaming(sym)
        \/ ResetErrors(sym)
        \/ \E price \in TickPrices : AddPriceData(sym, price)
        \/ \E i \in IntervalChoices, m \in MaxErrorChoices : UpdateConfig(sym, i, m)
        \/ \E en \in BOOLEAN : AddPairExisting(sym, en)
        \/ \E en \in BOOLEAN, i \in IntervalChoices, m \in MaxErrorChoices :
              ImportConfig(sym, en, i, m)

SpecPair == Init /\ [][NextPair]_vars

\* the pair whose history is filled to its cap
HistSymbols == {"BTCUSDT"}

NextHist ==
    \E sym \in HistSymbols :
        \/ Enable(sym)
        \/ Disable(sym)
        \/ SetMaintenance(sym)
        \/ StartStreaming(sym)
        \/ StopStreaming(sym)
        \/ ResetErrors(sym)
        \/ \E price \in TickPrices : CollectTick(sym, price)

SpecHist == Init /\ [][NextHist]_vars

\* add_price_data called with the next tick, up to maxticks ticks
AddPriceDataUpTo(sym, price, maxticks) ==
    /\ pairs[sym].total_updates < maxticks
    /\ pairs' = [pairs EXCEPT ![sym] = add_price_data(@, Tick(sym, price), now)]
    /\ UNCHANGED <<sigVars, stoVars, sysVars, strVars>>

\* The pair with its default max_errors, given ticks enough to reach it,
\* under the operations that change enabled, status and is_streaming.
NextErr ==
    \E sym \in HistSymbols :
        \/ Enable(sym)
        \/ Disable(sym)
        \/ SetMaintenance(sym)
        \/ StartStreaming(sym)
        \/ StopStreaming(sym)
        \/ ResetErrors(sym)
        \/ \E price \in TickPrices : AddPriceDataUpTo(sym, price, MaxTicksErr)
        \/ \E en \in BOOLEAN : AddPairExisting(sym, en)

SpecErr == Init /\ [][NextErr]_vars

(***************************************************************************)
(* Operations of the signal manager                                        *)
(***************************************************************************)
\* SignalManager.create_signal(pattern_data, indicators_used, current_price).
\* A rejected candidate returns None and changes nothing.
CreateSignal(pattern_data, indicators, current_price) ==
    LET signal_hash == generate_signal_hash(pattern_data, current_price)
        signal      == TradingSignal(now, current_price, pattern_data, signal_hash)
    IN  /\ IF can_create_signal(active_signals, signal_hashes, pattern_cooldowns,
                                pattern_data, current_price, indicators, now)
           THEN /\ db' = save_signal(db, signal)
                /\ active_signals' = DictPut(active_signals, signal_hash, signal)
                /\ signal_hashes' \in add_signal_hash(signal_hashes, signal_hash)
                /\ pattern_cooldowns' =
                       set_pattern_cooldown(pattern_cooldowns, pattern_data.pattern, now)
                /\ created' = created \cup {[signal |-> signal, run |-> run]}
           ELSE UNCHANGED <<db, active_signals, signal_hashes, pattern_cooldowns, created>>
        /\ UNCHANGED <<now, closed, run, analysis_count, pairs, strVars, stoVars, sysVars>>

\* SignalManager.update_signals(current_price)
UpdateSignals(current_price) ==
    LET after   == [h \in DOMAIN active_signals |->
                        update_one(active_signals[h], current_price, now)]
        changed == {h \in DOMAIN active_signals : after[h].status # active_signals[h].status}
        updated_signals == {after[h] : h \in changed}
    IN  /\ active_signals' = DictDel(after, {h \in changed : after[h].status # ACTIVE})
        /\ db' = update_all_in_db(db, updated_signals)
        /\ closed' = closed \cup updated_signals
        /\ UNCHANGED <<now, signal_hashes, pattern_cooldowns, created, run, analysis_count, pairs,
                       strVars, stoVars, sysVars>>

\* The process stops and starts again: SignalManager.__init__ with
\* _load_active_signals.  What was only in memory is gone.
Restart ==
    LET rows == {h \in DOMAIN db : db[h].status = ACTIVE}
    IN  /\ run < MaxRestarts
        /\ active_signals' = [h \in rows |-> load_signal(db[h])]
        /\ signal_hashes' \in add_signal_hashes({}, rows)
        /\ pattern_cooldowns' = NoCooldowns
        /\ closed' = {}
        /\ run' = run + 1
        /\ analysis_count' = 0
        /\ UNCHANGED <<now, db, created, pairs, strVars, stoVars, sysVars>>

\* time passes until t
AdvanceTime(t) ==
    /\ t > now
    /\ now' = t
    /\ UNCHANGED <<active_signals, signal_hashes, pattern_cooldowns, db, created, closed, run,
                   analysis_count, pairs, strVars, stoVars, sysVars>>

\* indicator dictionaries handed to create_signal
Indicators(nonempty, required, upper, lower, atr) ==
    [nonempty |-> nonempty, required |-> required,
     BB_UPPER |-> upper, BB_LOWER |-> lower, ATR |-> atr]
GoodIndicators     == Indicators(TRUE, TRUE, 101000, 99000, 1000)
NoIndicators       == Indicators(FALSE, FALSE, 0, 0, 0)
MissingIndicators  == Indicators(TRUE, FALSE, 0, 0, 1000)
VolatileIndicators == Indicators(TRUE, TRUE, 112000, 100000, 1000)
HighATRIndicators  == Indicators(TRUE, TRUE, 101000, 99000, 7000)

\* candidates handed to create_signal
PatternData(pattern, entry, target, stop) ==
    [pattern |-> pattern, entry |-> entry, target |-> target, stop |-> stop,
     confidence |-> 80]

SigPatterns   == {DOUBLE_BOTTOM, INDICATORS_BUY, HEAD_AND_SHOULDERS}
SigEntries    == {100000}
SigTargets    == {110000, 90000}
SigStops      == {97000, 103000}
SigCurrent    == {100000}
SigIndicators == {GoodIndicators, MissingIndicators}
SigPrices     == {100000, 110010, 89000}
SigTimes      == {1, 49}

NextSig ==
    \/ \E pattern \in SigPatterns, entry \in SigEntries, target \in SigTargets,
          stop \in SigStops, current \in SigCurrent, ind \in SigIndicators :
          /\ Cardinality(created) < MaxCreated
          /\ CreateSignal(PatternData(pattern, entry, target, stop), ind, current)
    \/ \E price \in SigPrices : UpdateSignals(price)
    \/ Restart
    \/ \E t \in SigTimes : AdvanceTime(t)

SpecSig == Init /\ [][NextSig]_vars

\* Signals that live past both expiry ages while prices reach their targets
\* and stops.
ExpiryTimes == {1, 49, 97}

NextExpiry ==
    \/ \E pattern \in SigPatterns, entry \in SigEntries, target \in SigTargets,
          stop \in SigStops, current \in SigCurrent :
          /\ Cardinality(created) < MaxCreated
          /\ CreateSignal(PatternData(pattern, entry, target, stop), GoodIndicators, current)
    \/ \E price \in SigPrices : UpdateSignals(price)
    \/ \E t \in ExpiryTimes : AdvanceTime(t)
SpecExpiry == Init /\ [][NextExpiry]_vars

\* Candidates of every kind the validator tells apart, with no time passing.
ValPatterns   == {DOUBLE_BOTTOM, INDICATORS_BUY, HEAD_AND_SHOULDERS, TRIANGLE_BREAKOUT_UP}
ValEntries    == {100000, 102500, 0}
ValTargets    == {110000, 90000, 101000, 99000}
ValStops      == {97000, 103000, 94000, 106000}
ValCurrent    == {100000, 97500}
ValIndicators == {GoodIndicators, NoIndicators, MissingIndicators,
                  VolatileIndicators, HighATRIndicators}
ValPrices     == {100000, 110010}

NextValid ==
    \/ \E pattern \in ValPatterns, entry \in ValEntries, target \in ValTargets,
          stop \in ValStops, current \in ValCurrent, ind \in ValIndicators :
          /\ Cardinality(created) < MaxCreated
          /\ CreateSignal(PatternData(pattern, entry, target, stop), ind, current)
    \/ \E price \in ValPrices : UpdateSignals(price)
    \/ Restart

SpecValid == Init /\ [][NextValid]_vars

\* Every pattern offered again and again while time passes, in one process run.
CoolEntries == {100000, 101500}
CoolTargets == {110000, 90000}
CoolStops   == {97000, 103000}
CoolTimes   == {1, 2, 3, 4, 7, 8, 11, 12}

NextCool ==
    \/ \E pattern \in Patterns, entry \in CoolEntries, target \in CoolTargets,
          stop \in CoolStops :
          /\ Cardinality(created) < MaxCreated
          /\ CreateSignal(PatternData(pattern, entry, target, stop), GoodIndicators, 100000)
    \/ \E t \in CoolTimes : AdvanceTime(t)

SpecCool == Init /\ [][NextCool]_vars

\* One candidate every two hours (the cooldown of TRIANGLE_BREAKOUT_DOWN), each
\* with an entry of its own, until the limit of active signals is reached; the
\* price 104000 activates none of them, so they leave only by age.
CapCandidate(t) == PatternData(TRIANGLE_BREAKOUT_DOWN, 100000 + 10 * t, 90000, 103000)
CapTimes  == {4, 8, 12, 16, 20, 24, 28, 32, 36, 40, 49}
CapPrices == {104000}

NextCap ==
    \/ /\ Cardinality(created) < MaxCreatedCap
       /\ CreateSignal(CapCandidate(now), GoodIndicators, 100000)
    \/ \E price \in CapPrices : UpdateSignals(price)
    \/ Restart
    \/ \E t \in CapTimes : AdvanceTime(t)

SpecCap == Init /\ [][NextCap]_vars

(***************************************************************************)
(* TechnicalAnalysisEngine.detect_double_bottom and                        *)
(* TradingAnalyzer.analyze_market.  A sample of price_history is a record  *)
(* [low, close, volume]; sample number i of Python is h[i + 1].  The       *)
(* prices of a series are counted in tenths: 43000.00 is 430000.           *)
(***************************************************************************)
sample_low(h, i)    == h[i + 1].low
sample_volume(h, i) == h[i + 1].volume

\* sum(volumes[-20:])
RECURSIVE sum_volumes(_, _)
sum_volumes(h, from) ==
    IF from >= Len(h) THEN 0 ELSE sample_volume(h, from) + sum_volumes(h, from + 1)

\* recent_lows: the samples i in range(20, len - 20) that are the minimum of
\* lows[i-20:i+20] and whose volume is above 0.8 of the average of the last 20
recent_lows(h) ==
    {i \in 20..(Len(h) - 21) :
        /\ \A j \in (i - 20)..(i + 19) : sample_low(h, i) <= sample_low(h, j)
        /\ 25 * sample_volume(h, i) > sum_volumes(h, Len(h) - 20)}

\* the largest member of a set of sample numbers
last_sample(S) == CHOOSE i \in S : \A j \in S : j <= i

\* detect_double_bottom: the set of the pattern it returns, empty for None.
\* s * 1.008 is s + s * 0.008 and s * 0.985 is s - s * 0.015, to the
\* tenth; the confidence 50 + (1 - price_diff) * 35 is cut to a whole
\* number (it is at most 85, so min(85, .) changes nothing).
detect_double_bottom(h) ==
    LET lows == recent_lows(h)
    IN  IF Len(h) < 80 \/ Cardinality(lows) < 2 THEN {}
        ELSE
        LET second == last_sample(lows)
            first  == last_sample(lows \ {second})
            f == sample_low(h, first)
            s == sample_low(h, second)
            peak_between  == CHOOSE p \in {sample_low(h, i) : i \in first..(second - 1)} :
                                 \A i \in first..(second - 1) : sample_low(h, i) <= p
            target_height == peak_between - (IF f < s THEN f ELSE s)
            entry_price   == s + (s * 8) \div 1000
        IN  IF second - first < 20 THEN {}
            ELSE IF ~(Abs(f - s) * 1000 < 15 * f) THEN {}
            ELSE IF target_height * 100 < 2 * s THEN {}
            ELSE {[ pattern    |-> DOUBLE_BOTTOM,
                    entry      |-> entry_price,
                    target     |-> entry_price + (target_height * 8) \div 10,
                    stop       |-> s - (s * 15) \div 1000,
                    confidence |-> 85 - (35 * Abs(f - s) + f - 1) \div f ]}

\* a series of 100 samples: two lows at samples first and second, a peak
\* half way between them, and a flat level elsewhere; close = low
Series(first, second, low, peak, volume) ==
    [k \in 1..100 |->
        LET i == k - 1
            v == IF i \in {first, second} THEN low
                 ELSE IF i = (first + second) \div 2 THEN peak
                 ELSE low + 5000
        IN  [low |-> v, close |-> v, volume |-> volume]]

\* TradingAnalyzer.add_price_data once the series h is in price_history and
\* can_analyze holds: analyze_market (update_signals with the last close, then
\* create_signal for the pattern detect_double_bottom returns) and the count
\* of analyses.  The other
\* detectors and calculate_indicators are not modelled: the indicators are an
\* input.
AnalyzeMarket(h, indicators) ==
    LET current_price == h[Len(h)].close
        after   == [x \in DOMAIN active_signals |->
                        update_one(active_signals[x], current_price, now)]
        changed == {x \in DOMAIN active_signals : after[x].status # active_signals[x].status}
        updated_signals == {after[x] : x \in changed}
        active  == DictDel(after, {x \in changed : after[x].status # ACTIVE})
        rows    == update_all_in_db(db, updated_signals)
        new_patterns == detect_double_bottom(h)
        creatable == {p \in new_patterns :
                         can_create_signal(active, signal_hashes, pattern_cooldowns,
                                           p, current_price, indicators, now)}
    IN  /\ Len(h) >= 30
        /\ analysis_count < MaxAnalyses
        /\ analysis_count' = analysis_count + 1
        /\ closed' = closed \cup updated_signals
        /\ IF creatable = {}
           THEN /\ active_signals' = active
                /\ db' = rows
                /\ UNCHANGED <<signal_hashes, pattern_cooldowns, created>>
           ELSE \E p \in creatable :
                  LET signal_hash == generate_signal_hash(p, current_price)
                      signal      == TradingSignal(now, current_price, p, signal_hash)
                  IN  /\ db' = save_signal(rows, signal)
                      /\ active_signals' = DictPut(active, signal_hash, signal)
                      /\ signal_hashes' \in add_signal_hash(signal_hashes, signal_hash)
                      /\ pattern_cooldowns' = set_pattern_cooldown(pattern_cooldowns, p.pattern, now)
                      /\ created' = created \cup {[signal |-> signal, run |-> run]}
        /\ UNCHANGED <<now, run, pairs, strVars, stoVars, sysVars>>

SeriesFirst   == {30}
SeriesSecond  == {50, 60}
SeriesLows    == {430000, 420000}
SeriesPeaks   == {440000, 460000}
SeriesVolumes == {0, 100}
PatternTimes  == {4, 8, 9, 49}

NextPattern ==
    \/ \E first \in SeriesFirst, second \in SeriesSecond, low \in SeriesLows,
          peak \in SeriesPeaks, volume \in SeriesVolumes :
          AnalyzeMarket(Series(first, second, low, peak, volume), GoodIndicators)
    \/ \E t \in PatternTimes : AdvanceTime(t)
SpecPattern == Init /\ [][NextPattern]_vars

(***************************************************************************)
(* The uniqueness set filled to its cap.  A hash is named by the number of *)
(* its first arrival, so that the larger number is the hash added later.   *)
(***************************************************************************)
HashIds == 1..MaxHashes

\* the orders in which list(self.signal_hashes) may enumerate the set, of the
\* many a hash table can produce
IterationOrders == {"oldest_first", "newest_first"}

\* list(all)[-k:] when the set enumerates in the given order
last_of_list(all, k, order) ==
    IF order = "oldest_first"
    THEN {x \in all : Cardinality({y \in all : y > x}) < k}
    ELSE {x \in all : Cardinality({y \in all : y < x}) < k}

\* add_signal_hash when the set enumerates in the given order
add_signal_hash_in_order(hashes, signal_hash, order) ==
    LET all == hashes \cup {signal_hash}
    IN  IF Cardinality(all) > max_signal_hashes
        THEN last_of_list(all, kept_signal_hashes, order)
        ELSE all

\* add_signal_hash with a hash that is not in the set: the next hash in the
\* order of arrival, or one that was dropped and arrives again
AddSignalHash(h, order) ==
    /\ h \notin signal_hashes
    /\ h = 1 \/ (h - 1) \in signal_hashes
    /\ signal_hashes' = add_signal_hash_in_order(signal_hashes, h, order)
    /\ UNCHANGED <<pairs, now, active_signals, pattern_cooldowns, db, created, closed, run,
                   analysis_count, strVars, stoVars, sysVars>>

NextHash == \E h \in HashIds, order \in IterationOrders : AddSignalHash(h, order)
SpecHash == Init /\ [][NextHash]_vars

(***************************************************************************)
(* Worker threads inside fetch_data / _make_request of a source            *)
(***************************************************************************)
\* _collect_pair_data and fetch_data find the source available
FetchBegin(w, s) ==
    /\ workers[w].pc = "idle"
    /\ sources[s].is_available
    /\ workers' = [workers EXCEPT ![w] = [pc |-> "limit", src |-> s, wake |-> 0]]
    /\ UNCHANGED <<pairs, sigVars, stoVars, sysVars, sources, streamer, loops, tasks, callers, clock, requests, halted>>

\* _make_request: time_since_last is computed, the sleep begins
RateLimit(w) ==
    /\ workers[w].pc = "limit"
    /\ workers' = [workers EXCEPT ![w].pc = "sleep",
                                  ![w].wake = wake_time(sources[workers[w].src], workers[w].src, clock)]
    /\ UNCHANGED <<pairs, sigVars, stoVars, sysVars, sources, streamer, loops, tasks, callers, clock, requests, halted>>

\* _make_request: the sleep is over, last_request_time is stamped and
\* requests.get is called
StartRequest(w) ==
    /\ workers[w].pc = "sleep"
    /\ clock >= workers[w].wake
    /\ Cardinality(requests) < MaxRequests
    /\ sources' = [sources EXCEPT ![workers[w].src].last_request_time = clock]
    /\ requests' = requests \cup {[source |-> workers[w].src, at |-> clock, by |-> w]}
    /\ workers' = [workers EXCEPT ![w].pc = "inflight"]
    /\ UNCHANGED <<pairs, sigVars, stoVars, sysVars, streamer, loops, tasks, callers, clock, halted>>

\* _make_request: the response arrives, good or not
Respond(w, ok) ==
    /\ workers[w].pc = "inflight"
    /\ sources' = [sources EXCEPT ![workers[w].src] =
                      IF ok THEN request_succeeded(@) ELSE source_handle_error(@)]
    /\ workers' = [workers EXCEPT ![w] = NewWorker]
    /\ UNCHANGED <<pairs, sigVars, stoVars, sysVars, streamer, loops, tasks, callers, clock, requests, halted>>

\* DataSource.reset_errors (reset_all_errors calls it for every source)
SourceResetErrors(s) ==
    /\ sources' = [sources EXCEPT ![s] = source_reset_errors(@)]
    /\ UNCHANGED <<pairs, sigVars, stoVars, sysVars, streamer, loops, tasks, callers, workers, clock, requests, halted>>

\* time passes
AdvanceClock(limit) ==
    /\ clock < limit
    /\ clock' = clock + 1
    /\ UNCHANGED <<pairs, sigVars, stoVars, sysVars, sources, streamer, loops, tasks, callers, workers, requests, halted>>

NextSrc ==
    \/ \E w \in Workers, s \in HttpSources : FetchBegin(w, s)
    \/ \E w \in Workers : RateLimit(w)
    \/ \E w \in Workers : StartRequest(w)
    \/ \E w \in Workers, ok \in BOOLEAN : Respond(w, ok)
    \/ \E s \in HttpSources : SourceResetErrors(s)
    \/ AdvanceClock(MaxClockSrc)

SpecSrc == Init /\ [][NextSrc]_vars


(***************************************************************************)
(* Threads of the streamer: control callers, loop threads, fetch tasks     *)
(***************************************************************************)
\* a thread started with target _streaming_loop; until is the time at which
\* its wait or sleep is over
NewLoop == [pc |-> "check", until |-> 0]

\* TradingPairManager.get_enabled_pairs, get_streaming_pairs (their symbols)
get_enabled_pairs(ps)   == {sym \in DOMAIN ps : ps[sym].enabled}
get_streaming_pairs(ps) == {sym \in DOMAIN ps : ps[sym].is_streaming}

\* MultiPairDataStreamer.health_check: the 'status' it returns.  Each test
\* lowers the status only where it is still 'healthy', except 'stopped' and
\* 'critical', which are assigned outright.
health_check(st, srcs, ps, t) ==
    LET available_sources == {s \in DOMAIN srcs : srcs[s].is_available}
        streaming_pairs   == get_streaming_pairs(ps)
        healthy_pairs     == {sym \in streaming_pairs : is_streaming_healthy(ps[sym], t)}
        lower(status, to) == IF status = "healthy" THEN to ELSE status
        s1 == IF ~st.is_running THEN "stopped" ELSE "healthy"
        s2 == IF Cardinality(available_sources) = 0 THEN "critical"
              ELSE IF Cardinality(available_sources) = 1 THEN lower(s1, "degraded")
              ELSE s1
        s3 == IF Cardinality(streaming_pairs) = 0 THEN lower(s2, "warning")
              ELSE IF Cardinality(healthy_pairs) < Cardinality(streaming_pairs)
                   THEN lower(s2, "degraded")
              ELSE s2
        s4 == IF st.total_requests > 0 /\ st.failed_requests * 100 > 20 * st.total_requests
              THEN lower(s3, "degraded")
              ELSE s3
    IN  s4

\* a start_all_enabled call returns
Returned(c, result, log) ==
    [callers EXCEPT ![c] = [pc |-> "idle", pool |-> 0, result |-> result, log |-> log]]

\* start_all_enabled, the whole call
StartAllEnabled(c) ==
    /\ callers[c].pc = "idle"
    /\ IF start_refused(streamer)
       THEN /\ callers' = Returned(c, "False", "running")
            /\ UNCHANGED <<pairs, streamer, loops, halted>>
       ELSE IF get_enabled_pairs(pairs) = {}
       THEN /\ callers' = Returned(c, "False", "no_enabled")
            /\ UNCHANGED <<pairs, streamer, loops, halted>>
       ELSE IF started_count(pairs) = 0
       THEN /\ callers' = Returned(c, "False", "none_started")
            /\ pairs' = start_enabled_pairs(pairs)
            /\ UNCHANGED <<streamer, loops, halted>>
       ELSE /\ Len(loops) < MaxLoops
            /\ callers' = Returned(c, "True", "started")
            /\ pairs' = start_enabled_pairs(pairs)
            /\ streamer' = launch(streamer, Len(loops) + 1)
            /\ loops' = Append(loops, NewLoop)
            /\ halted' = "no"
    /\ UNCHANGED <<sigVars, stoVars, sysVars, sources, tasks, workers, clock, requests>>

\* start_all_enabled in three steps: the test of is_running
StartCheck(c) ==
    /\ callers[c].pc \in {"idle", "start"}
    /\ callers' = IF start_refused(streamer)
                  THEN Returned(c, "False", "running")
                  ELSE [callers EXCEPT ![c].pc = "s_pairs"]
    /\ UNCHANGED <<pairs, sigVars, stoVars, sysVars, sources, streamer, loops, tasks, workers, clock, requests, halted>>

\* start_all_enabled: the enabled pairs are started
StartPairs(c) ==
    /\ callers[c].pc = "s_pairs"
    /\ pairs' = IF get_enabled_pairs(pairs) = {} THEN pairs ELSE start_enabled_pairs(pairs)
    /\ callers' = IF get_enabled_pairs(pairs) = {} THEN Returned(c, "False", "no_enabled")
                  ELSE IF started_count(pairs) = 0 THEN Returned(c, "False", "none_started")
                  ELSE [callers EXCEPT ![c].pc = "s_launch"]
    /\ halted' = IF started_count(pairs) = 0 THEN halted ELSE "no"
    /\ UNCHANGED <<sigVars, stoVars, sysVars, sources, streamer, loops, tasks, workers, clock, requests>>

\* start_all_enabled: flags, pool and loop thread
StartLaunch(c) ==
    /\ callers[c].pc = "s_launch"
    /\ Len(loops) < MaxLoops
    /\ streamer' = launch(streamer, Len(loops) + 1)
    /\ loops' = Append(loops, NewLoop)
    /\ callers' = Returned(c, "True", "started")
    /\ halted' = "no"
    /\ UNCHANGED <<pairs, sigVars, stoVars, sysVars, sources, tasks, workers, clock, requests>>

\* start_pair for an enabled pair, up to its call of start_all_enabled
StartPair(c, sym) ==
    /\ callers[c].pc = "idle"
    /\ pairs[sym].enabled
    /\ pairs' = [pairs EXCEPT ![sym] = start_streaming(@)]
    /\ callers' = [callers EXCEPT ![c].pc =
                      IF can_start_streaming(pairs[sym]) /\ ~streamer.is_running
                      THEN "start" ELSE "idle"]
    /\ halted' = IF can_start_streaming(pairs[sym]) THEN "no" ELSE halted
    /\ UNCHANGED <<sigVars, stoVars, sysVars, sources, streamer, loops, tasks, workers, clock, requests>>

\* stop_all on a running streamer: the flags
StopBegin(c) ==
    /\ callers[c].pc = "idle"
    /\ streamer.is_running
    /\ streamer' = signal_stop(streamer)
    /\ callers' = [callers EXCEPT ![c].pc = "t_pairs"]
    /\ halted' = "stopping"
    /\ UNCHANGED <<pairs, sigVars, stoVars, sysVars, sources, loops, tasks, workers, clock, requests>>

\* stop_all: the streaming pairs are stopped
StopPairs(c) ==
    /\ callers[c].pc = "t_pairs"
    /\ pairs' = stop_streaming_pairs(pairs)
    /\ callers' = [callers EXCEPT ![c].pc = "t_join"]
    /\ UNCHANGED <<sigVars, stoVars, sysVars, sources, streamer, loops, tasks, workers, clock, requests, halted>>

\* stop_all: streaming_thread.join(timeout=10) returns, the thread being over
\* or not
StopJoin(c) ==
    /\ callers[c].pc = "t_join"
    /\ callers' = [callers EXCEPT ![c].pc = "t_shutdown"]
    /\ UNCHANGED <<pairs, sigVars, stoVars, sysVars, sources, streamer, loops, tasks, workers, clock, requests, halted>>

\* stop_all: if self.executor, its shutdown begins
StopShutdown(c) ==
    /\ callers[c].pc = "t_shutdown"
    /\ IF streamer.executor = 0
       THEN /\ callers' = [callers EXCEPT ![c].pc = "idle"]
            /\ halted' = IF halted = "stopping" THEN "stopped" ELSE halted
            /\ UNCHANGED streamer
       ELSE /\ callers' = [callers EXCEPT ![c].pc = "t_wait", ![c].pool = streamer.executor]
            /\ streamer' = [streamer EXCEPT !.pools_shut = @ \cup {streamer.executor}]
            /\ UNCHANGED halted
    /\ UNCHANGED <<pairs, sigVars, stoVars, sysVars, sources, loops, tasks, workers, clock, requests>>

\* stop_all: shutdown(wait=True) returns, self.executor = None, stop_all returns
StopReturn(c) ==
    /\ callers[c].pc = "t_wait"
    /\ shutdown_done(tasks, callers[c].pool)
    /\ streamer' = [streamer EXCEPT !.executor = 0]
    /\ callers' = [callers EXCEPT ![c].pc = "idle", ![c].pool = 0]
    /\ halted' = IF halted = "stopping" THEN "stopped" ELSE halted
    /\ UNCHANGED <<pairs, sigVars, stoVars, sysVars, sources, loops, tasks, workers, clock, requests>>

\* _streaming_loop: the while test
LoopCheck(L) ==
    /\ L <= Len(loops)
    /\ loops[L].pc = "check"
    /\ loops' = [loops EXCEPT ![L].pc = IF loop_continues(streamer) THEN "collect" ELSE "done"]
    /\ UNCHANGED <<pairs, sigVars, stoVars, sysVars, sources, streamer, tasks, callers, workers, clock, requests, halted>>

\* _collect_all_data up to the submission of one task per streaming pair;
\* maxticks bounds the ticks a pair is given
LoopSubmit(L, maxticks) ==
    /\ L <= Len(loops)
    /\ loops[L].pc = "collect"
    /\ LET streaming == get_streaming_pairs(pairs)
       IN  IF streaming = {}
           THEN /\ loops' = [loops EXCEPT ![L] = [pc |-> "wait", until |-> clock + streamer.update_interval]]
                /\ streamer' = [streamer EXCEPT !.last_update = clock]
                /\ UNCHANGED tasks
           ELSE IF submit_raises(streamer)
           THEN /\ loops' = [loops EXCEPT ![L] = [pc |-> "errsleep", until |-> clock + error_sleep]]
                /\ UNCHANGED <<streamer, tasks>>
           ELSE /\ \A sym \in streaming :
                      pairs[sym].total_updates
                        + Cardinality({task \in tasks : task.sym = sym}) < maxticks
                /\ tasks' = tasks \cup
                      { [loop |-> L, sym |-> sym, pool |-> streamer.executor,
                         state |-> "pending", result |-> NoCollect] : sym \in streaming }
                /\ loops' = [loops EXCEPT ![L] = [pc |-> "results",
                                                  until |-> clock + as_completed_timeout]]
                /\ UNCHANGED streamer
    /\ UNCHANGED <<pairs, sigVars, stoVars, sysVars, sources, callers, workers, clock, requests, halted>>

\* a worker of the pool runs _collect_pair_data to its end, for the task
\* that loop L submitted for the pair sym
TaskRun(L, sym, outcome) ==
    /\ \E k \in tasks : k.loop = L /\ k.sym = sym /\ k.state = "pending"
    /\ LET task == CHOOSE k \in tasks : k.loop = L /\ k.sym = sym /\ k.state = "pending"
           r == collect_pair_data(sources, outcome, clock)
           record == CollectRecord(sources, outcome, r)
       IN  /\ sources' = r.sources
           /\ streamer' = [streamer EXCEPT !.last_collect = record]
           /\ tasks' = (tasks \ {task}) \cup {[task EXCEPT !.state = "done", !.result = record]}
    /\ UNCHANGED <<pairs, sigVars, stoVars, sysVars, loops, callers, workers, clock, requests, halted>>

\* _collect_all_data, the loop over as_completed: add_price_data for each
\* PriceData that a task returned
results_pairs(ps, done, t) ==
    [sym \in DOMAIN ps |->
        IF \E task \in done : task.sym = sym /\ task.result.raw_data.ok
        THEN LET task == CHOOSE k \in done : k.sym = sym /\ k.result.raw_data.ok
             IN  add_price_data(ps[sym], CollectedTick(ps[sym], task.result), t)
        ELSE ps[sym]]

\* _collect_all_data, the counters of self.stats, and last_update as the
\* loop sets it afterwards
results_stats(st, done, t) ==
    [st EXCEPT !.successful_requests = @ + Cardinality({task \in done : task.result.raw_data.ok}),
               !.failed_requests = @ + Cardinality({task \in done : ~task.result.raw_data.ok}),
               !.total_requests = @ + Cardinality(done),
               !.last_update = t]

\* _collect_all_data from as_completed on, once every task of the cycle has
\* ended, and the loop up to stop_event.wait(update_interval)
LoopResults(L) ==
    /\ L <= Len(loops)
    /\ loops[L].pc = "results"
    /\ LET own == {task \in tasks : task.loop = L}
       IN  /\ \A task \in own : task.state = "done" /\ task.result.at <= clock
           /\ pairs' = results_pairs(pairs, own, now)
           /\ streamer' = results_stats(streamer, own, clock)
           /\ tasks' = tasks \ own
    /\ loops' = [loops EXCEPT ![L] = [pc |-> "wait", until |-> clock + streamer.update_interval]]
    /\ UNCHANGED <<sigVars, stoVars, sysVars, sources, callers, workers, clock, requests, halted>>

\* stop_event.wait(update_interval) returns: True when the event is set,
\* False when the interval is over
LoopWait(L) ==
    /\ L <= Len(loops)
    /\ loops[L].pc = "wait"
    /\ streamer.stop_event \/ clock >= loops[L].until
    /\ loops' = [loops EXCEPT ![L].pc = IF streamer.stop_event THEN "done" ELSE "check"]
    /\ UNCHANGED <<pairs, sigVars, stoVars, sysVars, sources, streamer, tasks, callers, workers, clock, requests, halted>>

\* as_completed(futures, timeout=30) raises TimeoutError with a task of the
\* cycle still unfinished: the exception leaves _collect_all_data and reaches
\* the except branch of the loop.  The futures of the cycle are abandoned
\* (what their tasks still do in the pool is left out).
LoopTimeout(L) ==
    /\ L <= Len(loops)
    /\ loops[L].pc = "results"
    /\ clock >= loops[L].until
    /\ \E task \in tasks : task.loop = L /\ task.state = "pending"
    /\ tasks' = {task \in tasks : task.loop # L}
    /\ loops' = [loops EXCEPT ![L] = [pc |-> "errsleep", until |-> clock + error_sleep]]
    /\ UNCHANGED <<pairs, sigVars, stoVars, sysVars, sources, streamer, callers, workers, clock, requests, halted>>

\* the except branch with the exception ending the loop
LoopErrSleep_exits(L) ==
    /\ L <= Len(loops)
    /\ loops[L].pc = "errsleep"
    /\ clock >= loops[L].until
    /\ loops' = [loops EXCEPT ![L].pc = "done"]
    /\ UNCHANGED <<pairs, sigVars, stoVars, sysVars, sources, streamer, tasks, callers, workers, clock, requests, halted>>

\* the except branch of the loop: time.sleep(1), then the while test again
LoopErrSleep(L) ==
    /\ L <= Len(loops)
    /\ loops[L].pc = "errsleep"
    /\ clock >= loops[L].until
    /\ loops' = [loops EXCEPT ![L].pc = "check"]
    /\ UNCHANGED <<pairs, sigVars, stoVars, sysVars, sources, streamer, tasks, callers, workers, clock, requests, halted>>

\* MultiPairDataStreamer.update_config(update_interval=...)
StreamerUpdateConfig(interval) ==
    /\ streamer' = streamer_update_config(streamer, interval)
    /\ UNCHANGED <<pairs, sigVars, stoVars, sysVars, sources, loops, tasks, callers, workers, clock, requests, halted>>

\* the times for which some thread waits: the end of a loop's wait or sleep,
\* the deadline of its as_completed, the end of a task's request
Deadlines ==
    {loops[L].until : L \in {K \in 1..Len(loops) : loops[K].pc \in {"wait", "errsleep", "results"}}}
        \cup {task.result.at : task \in {k \in tasks : k.state = "done"}}

\* time passes up to the next moment for which a thread waits
PassTime(limit) ==
    /\ \E d \in Deadlines :
          /\ d > clock
          /\ d <= limit
          /\ \A other \in Deadlines : other > clock => d <= other
          /\ clock' = d
    /\ UNCHANGED <<pairs, sigVars, stoVars, sysVars, sources, streamer, loops, tasks, callers, workers, requests, halted>>

\* inputs of the streamer's operations
LoopIds        == 1..MaxLoops
MarketPrice    == 45000000
GoodOutcome    == [s \in SourceNames |-> Price(MarketPrice)]
IntervalInputs == {0, streamer_update_interval}

\* Two control threads call start_all_enabled, start_pair and stop_all (as
\* SystemManager.start, stop and restart do, which hold no lock either).
\* update_interval keeps its default; time passes when a thread waits for it.
NextRace ==
    \/ \E c \in Callers :
          \/ StartCheck(c)
          \/ StartPairs(c)
          \/ StartLaunch(c)
          \/ \E sym \in Symbols : StartPair(c, sym)
          \/ StopBegin(c)
          \/ StopPairs(c)
          \/ StopJoin(c)
          \/ StopShutdown(c)
          \/ StopReturn(c)
    \/ \E L \in LoopIds :
          \/ LoopCheck(L)
          \/ LoopSubmit(L, MaxTicks)
          \/ LoopResults(L)
          \/ LoopWait(L)
          \/ LoopErrSleep(L)
    \/ \E L \in LoopIds, sym \in Symbols : TaskRun(L, sym, GoodOutcome)
    \/ PassTime(MaxClockRace)

SpecRace == Init /\ [][NextRace]_vars


\* One control thread starts and stops the streamer while the pair that is
\* enabled by default is disabled, enabled, put in maintenance and reset.
\* update_interval keeps its default.  (With one control thread no submit
\* raises, so the loop's except branch is not taken.)
CtlCaller  == "c1"
CtlSymbols == {"BTCUSDT"}

NextCtl ==
    \/ StartAllEnabled(CtlCaller)
    \/ StopBegin(CtlCaller)
    \/ StopPairs(CtlCaller)
    \/ StopJoin(CtlCaller)
    \/ StopShutdown(CtlCaller)
    \/ StopReturn(CtlCaller)
    \/ \E L \in LoopIds :
          \/ LoopCheck(L)
          \/ LoopSubmit(L, MaxTicks)
          \/ LoopResults(L)
          \/ LoopWait(L)
    \/ \E L \in LoopIds, sym \in Symbols : TaskRun(L, sym, GoodOutcome)
    \/ \E sym \in CtlSymbols :
          \/ Enable(sym)
          \/ Disable(sym)
          \/ SetMaintenance(sym)
          \/ ResetErrors(sym)
    \/ PassTime(MaxClockCtl)

SpecCtl == Init /\ [][NextCtl]_vars


\* One control thread starts and stops the streamer over pairs in every
\* status; the steps of the loop threads it starts are those of SpecCtl and
\* are left out here.
NextStart ==
    \/ StartAllEnabled(CtlCaller)
    \/ StopBegin(CtlCaller)
    \/ StopPairs(CtlCaller)
    \/ StopJoin(CtlCaller)
    \/ StopShutdown(CtlCaller)
    \/ StopReturn(CtlCaller)
    \/ \E sym \in Symbols :
          \/ Enable(sym)
          \/ Disable(sym)
          \/ SetMaintenance(sym)
          \/ ResetErrors(sym)

SpecStart == Init /\ [][NextStart]_vars


\* what the sources bring in one _collect_pair_data call: Binance and
\* CoinGecko fail or answer, Binance possibly with a lastPrice of 0; the
\* simulated source always answers
IngestOutcomes ==
    { f \in [SourceNames -> {FAIL, Price(MarketPrice), Price(0)}] :
          f[Simulated] = Price(MarketPrice) /\ f[CoinGecko] # Price(0) }

\* The streamer is started once and its loop collects for the pair that is
\* enabled by default, cycle after cycle, from sources that fail or answer.
NextIngest ==
    \/ StartAllEnabled(CtlCaller)
    \/ \E L \in LoopIds :
          \/ LoopCheck(L)
          \/ LoopSubmit(L, MaxTicksIngest)
          \/ LoopResults(L)
          \/ LoopWait(L)
    \/ \E L \in LoopIds, sym \in Symbols, outcome \in IngestOutcomes : TaskRun(L, sym, outcome)
    \/ \E i \in IntervalInputs : StreamerUpdateConfig(i)
    \/ PassTime(MaxClockIngest)

SpecIngest == Init /\ [][NextIngest]_vars


(***************************************************************************)
(* Operations of the DatabaseManager, by thread                            *)
(***************************************************************************)
\* save_price_data calls _execute_with_retry with an INSERT of one new row,
\* while fewer than maxrows rows have been offered
ExecCall(t, maxrows) ==
    /\ dbthreads[t].pc = "idle"
    /\ store.next_row <= maxrows
    /\ dbthreads' = [dbthreads EXCEPT ![t] =
           [@ EXCEPT !.pc = "try", !.attempt = 0, !.outcomes = << >>, !.waits = << >>,
                     !.rows = {store.next_row}, !.ret = NoReturn]]
    /\ store' = [store EXCEPT !.next_row = @ + 1]
    /\ UNCHANGED <<pairs, sigVars, strVars, sysVars>>

\* with self._lock: the thread enters, _get_connection opens the connection
ExecTry(t) ==
    /\ dbthreads[t].pc = "try"
    /\ store.lock = NoThread
    /\ store' = [store EXCEPT !.lock = t]
    /\ dbthreads' = [dbthreads EXCEPT ![t] = [@ EXCEPT !.pc = "exec", !.open = TRUE]]
    /\ UNCHANGED <<pairs, sigVars, strVars, sysVars>>

\* the attempt ends: cursor.execute and conn.commit went through (ok), or
\* one of them raised sqlite3.Error.  The lock is released either way.
ExecEnd(t, ok) ==
    LET th == dbthreads[t]
        done == [th EXCEPT !.outcomes = Append(@, ok)]
    IN  /\ th.pc = "exec"
        /\ ok => can_write(dbthreads, t)
        /\ IF ok
           THEN /\ store' = [store EXCEPT !.lock = NoThread,
                                          !.price_data = @ \cup th.pending \cup th.rows]
                /\ dbthreads' = [dbthreads EXCEPT ![t] =
                       [done EXCEPT !.pc = "idle", !.pending = {}, !.ret = ExecReturn(TRUE)]]
           ELSE /\ store' = [store EXCEPT !.lock = NoThread]
                /\ dbthreads' = [dbthreads EXCEPT ![t] =
                       IF retries_left(th.attempt)
                       THEN [drop_connection(done) EXCEPT
                                !.pc = "sleep", !.waits = Append(@, backoff(th.attempt))]
                       ELSE [drop_connection(done) EXCEPT
                                !.pc = "idle", !.ret = ExecReturn(FALSE)]]
        /\ UNCHANGED <<pairs, sigVars, strVars, sysVars>>

\* time.sleep returns and the for loop takes the next attempt
ExecWake(t) ==
    /\ dbthreads[t].pc = "sleep"
    /\ dbthreads' = [dbthreads EXCEPT ![t] = [@ EXCEPT !.pc = "try", !.attempt = @ + 1]]
    /\ UNCHANGED <<pairs, sigVars, strVars, sysVars, store>>

\* save_price_data_batch with a list of n new ticks: an empty list returns 0
\* at once, otherwise the thread enters with self._lock
BatchBegin(t, n, maxrows) ==
    LET xs == store.next_row .. (store.next_row + n - 1)
    IN  /\ dbthreads[t].pc = "idle"
        /\ store.next_row + n - 1 <= maxrows
        /\ IF n = 0
           THEN /\ dbthreads' = [dbthreads EXCEPT ![t] =
                       [@ EXCEPT !.ret = [op |-> "save_price_data_batch", ok |-> TRUE, count |-> 0]]]
                /\ UNCHANGED store
           ELSE /\ store.lock = NoThread
                /\ store' = [store EXCEPT !.lock = t, !.next_row = @ + n]
                /\ dbthreads' = [dbthreads EXCEPT ![t] =
                       [@ EXCEPT !.pc = "batch", !.open = TRUE, !.rows = xs, !.ret = NoReturn]]
        /\ UNCHANGED <<pairs, sigVars, strVars, sysVars>>

\* cursor.executemany inserts the rows one by one in the connection's
\* transaction and conn.commit follows.  inserted = n with committed: the
\* call returns cursor.rowcount = n.  Otherwise sqlite3.Error was raised
\* after `inserted` rows (by executemany, or by commit when inserted = n):
\* the except branch returns 0 and leaves the connection as it is.
BatchEnd(t, inserted, committed) ==
    LET th == dbthreads[t]
        n  == Cardinality(th.rows)
        xs == {x \in th.rows : Cardinality({y \in th.rows : y <= x}) <= inserted}
        count == IF committed THEN n ELSE 0
    IN  /\ th.pc = "batch"
        /\ inserted <= n
        /\ committed => inserted = n
        /\ inserted > 0 => can_write(dbthreads, t)
        /\ store' = [store EXCEPT
               !.lock = NoThread,
               !.price_data = IF committed THEN @ \cup th.pending \cup th.rows ELSE @,
               !.batches = @ \cup {[xs |-> th.rows, count |-> count]}]
        /\ dbthreads' = [dbthreads EXCEPT ![t] =
               [th EXCEPT !.pc = "idle",
                          !.pending = IF committed THEN {} ELSE @ \cup xs,
                          !.ret = [op |-> "save_price_data_batch", ok |-> committed, count |-> count]]]
        /\ UNCHANGED <<pairs, sigVars, strVars, sysVars>>

\* create_backup enters with self._lock
BackupBegin(t) ==
    /\ dbthreads[t].pc = "idle"
    /\ store.lock = NoThread
    /\ store' = [store EXCEPT !.lock = t]
    /\ dbthreads' = [dbthreads EXCEPT ![t] = [@ EXCEPT !.pc = "backup", !.open = TRUE, !.ret = NoReturn]]
    /\ UNCHANGED <<pairs, sigVars, strVars, sysVars>>

\* conn.backup copies the database as the thread's connection sees it, the
\* rows of its open transaction included
BackupEnd(t) ==
    /\ dbthreads[t].pc = "backup"
    /\ store' = [store EXCEPT !.lock = NoThread,
                              !.backup = store.price_data \cup dbthreads[t].pending,
                              !.has_backup = TRUE]
    /\ dbthreads' = [dbthreads EXCEPT ![t] =
           [@ EXCEPT !.pc = "idle", !.ret = [op |-> "create_backup", ok |-> TRUE, count |-> 0]]]
    /\ UNCHANGED <<pairs, sigVars, strVars, sysVars>>

\* restore_backup: a missing file returns False; otherwise the thread closes
\* its own connection and goes on to shutil.copy2.  _lock is not taken.
RestoreBegin(t) ==
    /\ dbthreads[t].pc = "idle"
    /\ dbthreads' = [dbthreads EXCEPT ![t] =
           IF store.has_backup
           THEN [drop_connection(@) EXCEPT !.pc = "copy", !.ret = NoReturn]
           ELSE [@ EXCEPT !.ret = [op |-> "restore_backup", ok |-> FALSE, count |-> 0]]]
    /\ UNCHANGED <<pairs, sigVars, strVars, sysVars, store>>

\* shutil.copy2(backup_path, self.db_path) has replaced the database file
RestoreEnd(t) ==
    /\ dbthreads[t].pc = "copy"
    /\ store' = [store EXCEPT !.price_data = store.backup]
    /\ dbthreads' = [dbthreads EXCEPT ![t] =
           [@ EXCEPT !.pc = "idle", !.ret = [op |-> "restore_backup", ok |-> TRUE, count |-> 0]]]
    /\ UNCHANGED <<pairs, sigVars, strVars, sysVars>>

\* close: the calling thread's connection is closed; _lock is not taken
Close(t) ==
    /\ dbthreads[t].pc = "idle"
    /\ dbthreads[t].open
    /\ dbthreads' = [dbthreads EXCEPT ![t] =
           [drop_connection(@) EXCEPT !.ret = [op |-> "close", ok |-> TRUE, count |-> 0]]]
    /\ UNCHANGED <<pairs, sigVars, strVars, sysVars, store>>

\* Two threads using every operation of the store.
NextStore ==
    \E t \in DbThreads :
        \/ ExecCall(t, MaxRowsStore) \/ ExecTry(t) \/ ExecWake(t)
        \/ \E ok \in BOOLEAN : ExecEnd(t, ok)
        \/ \E n \in BatchLens : BatchBegin(t, n, MaxRowsStore)
        \/ \E inserted \in BatchLens, committed \in BOOLEAN : BatchEnd(t, inserted, committed)
        \/ BackupBegin(t) \/ BackupEnd(t) \/ RestoreBegin(t) \/ RestoreEnd(t) \/ Close(t)
SpecStore == Init /\ [][NextStore]_vars

\* The store without backups: statements, batches and close.
NextBatch ==
    \E t \in DbThreads :
        \/ ExecCall(t, MaxRows) \/ ExecTry(t) \/ ExecWake(t)
        \/ \E ok \in BOOLEAN : ExecEnd(t, ok)
        \/ \E n \in BatchLens : BatchBegin(t, n, MaxRows)
        \/ \E inserted \in BatchLens, committed \in BOOLEAN : BatchEnd(t, inserted, committed)
        \/ Close(t)
SpecBatch == Init /\ [][NextBatch]_vars

\* Statements run by _execute_with_retry from two threads.
NextRetry ==
    \E t \in DbThreads :
        \/ ExecCall(t, MaxRowsRetry) \/ ExecTry(t) \/ ExecWake(t)
        \/ \E ok \in BOOLEAN : ExecEnd(t, ok)
SpecRetry == Init /\ [][NextRetry]_vars

(***************************************************************************)
(* The signal manager run until the uniqueness set passes its cap: one     *)
(* candidate per cooldown period, each 0.01 above the last, all closed at  *)
(* their targets whenever the limit of active signals is reached.          *)
(***************************************************************************)
CompactCandidate(k) ==
    PatternData(TRIANGLE_BREAKOUT_DOWN, 100000 + 10 * k, 90000 + 10 * k, 103000 + 10 * k)
CompactPrice(k) == 100000 + 10 * k
CompactIds      == 1..MaxCompact
CompactPrices   == {89000}

\* list(all)[-k:] for hashes of SpecCompact when the set enumerates them in
\* the given order; the current price in a hash (its fifth part) rises with
\* the time of arrival
last_of_hash_list(all, k, order) ==
    IF order = "oldest_first"
    THEN {x \in all : Cardinality({y \in all : y[5] > x[5]}) < k}
    ELSE {x \in all : Cardinality({y \in all : y[5] < x[5]}) < k}

\* create_signal when list(self.signal_hashes) enumerates in the given order:
\* one of the outcomes of CreateSignal
CreateSignalInOrder(pattern_data, indicators, current_price, order) ==
    LET all == signal_hashes \cup {generate_signal_hash(pattern_data, current_price)}
    IN  /\ signal_hashes' =
              IF can_create_signal(active_signals, signal_hashes, pattern_cooldowns,
                                   pattern_data, current_price, indicators, now)
              THEN IF Cardinality(all) > max_signal_hashes
                   THEN last_of_hash_list(all, kept_signal_hashes, order)
                   ELSE all
              ELSE signal_hashes
        /\ CreateSignal(pattern_data, indicators, current_price)

NextCompact ==
    \/ \E k \in CompactIds, order \in IterationOrders :
          /\ k \in {Cardinality(DOMAIN db), Cardinality(DOMAIN db) + 1}
          /\ CreateSignalInOrder(CompactCandidate(k), GoodIndicators, CompactPrice(k), order)
    \/ \E price \in CompactPrices :
          /\ Cardinality(DOMAIN active_signals) >= max_active_signals
          /\ UpdateSignals(price)
    \/ /\ Cardinality(DOMAIN active_signals) < max_active_signals
       /\ pattern_cooldowns[TRIANGLE_BREAKOUT_DOWN] # NoTime
       /\ AdvanceTime(pattern_cooldowns[TRIANGLE_BREAKOUT_DOWN] + cooldown_TRIANGLE_BREAKOUT)

SpecCompact == Init /\ [][NextCompact]_vars


(***************************************************************************)
(* A provider that answers with HTTP success and a body that cannot be     *)
(* used                                                                    *)
(***************************************************************************)
\* _make_request and fetch_data on a response with status 200 whose body is
\* not JSON (response.json() raises) or lacks a field (fetch_data's except):
\* raise_for_status passes, error_count and is_available are reset, and then
\* _handle_error counts the error
RespondMalformed(w) ==
    /\ workers[w].pc = "inflight"
    /\ sources' = [sources EXCEPT ![workers[w].src] =
                      source_handle_error(request_succeeded(@))]
    /\ workers' = [workers EXCEPT ![w] = NewWorker]
    /\ UNCHANGED <<pairs, sigVars, stoVars, sysVars, streamer, loops, tasks, callers, clock, requests, halted>>

NextResp ==
    \/ \E w \in Workers, s \in HttpSources : FetchBegin(w, s)
    \/ \E w \in Workers : RateLimit(w)
    \/ \E w \in Workers : StartRequest(w)
    \/ \E w \in Workers, ok \in BOOLEAN : Respond(w, ok)
    \/ \E w \in Workers : RespondMalformed(w)
    \/ AdvanceClock(MaxClockSrc)

SpecResp == Init /\ [][NextResp]_vars


(***************************************************************************)
(* The streaming loop over cycles that fail: sources that do not answer,   *)
(* tasks that do not finish before the deadline of as_completed, and a     *)
(* control thread that starts the streamer once and stops it.              *)
(***************************************************************************)
LoopOutcomes ==
    { f \in [SourceNames -> {FAIL, Price(MarketPrice)}] : f[Binance] = f[CoinGecko] }

NextLoop ==
    \/ Len(loops) = 0 /\ StartAllEnabled(CtlCaller)
    \/ StopBegin(CtlCaller)
    \/ StopPairs(CtlCaller)
    \/ StopJoin(CtlCaller)
    \/ StopShutdown(CtlCaller)
    \/ StopReturn(CtlCaller)
    \/ \E L \in LoopIds :
          \/ LoopCheck(L)
          \/ LoopSubmit(L, MaxTicksLoop)
          \/ LoopResults(L)
          \/ LoopTimeout(L)
          \/ LoopWait(L)
          \/ LoopErrSleep(L)
    \/ \E L \in LoopIds, sym \in Symbols, outcome \in LoopOutcomes : TaskRun(L, sym, outcome)
    \/ PassTime(MaxClockLoop)

\* the loop threads run and time passes; nothing is asked of the control
\* thread or of the tasks in the pool
LoopFairness ==
    /\ WF_vars(PassTime(MaxClockLoop))
    /\ \A L \in LoopIds :
          /\ WF_vars(LoopCheck(L))
          /\ WF_vars(LoopResults(L))
          /\ WF_vars(LoopTimeout(L))
          /\ WF_vars(LoopWait(L))
          /\ WF_vars(LoopErrSleep(L))

SpecLoop == Init /\ [][NextLoop]_vars /\ LoopFairness


(***************************************************************************)
(* core/system_manager.py: SystemManager.start, stop, start_pair and       *)
(* stop_pair, each as one call of one control thread, over the streamer's  *)
(* start_all_enabled, stop_all, start_pair and stop_pair                   *)
(***************************************************************************)
\* start_all_enabled as one call: what it returns, the pairs and the streamer
\* afterwards, and whether it started a loop thread (the n-th)
start_all_enabled(st, ps, n) ==
    IF start_refused(st) \/ get_enabled_pairs(ps) = {}
    THEN [ret |-> FALSE, pairs |-> ps, streamer |-> st, started |-> FALSE]
    ELSE IF started_count(ps) = 0
    THEN [ret |-> FALSE, pairs |-> start_enabled_pairs(ps), streamer |-> st, started |-> FALSE]
    ELSE [ret |-> TRUE, pairs |-> start_enabled_pairs(ps), streamer |-> launch(st, n),
          started |-> TRUE]

\* MultiPairDataStreamer.start_pair(symbol) as one call
start_pair(st, ps, sym, n) ==
    IF ~ps[sym].enabled \/ ~can_start_streaming(ps[sym])
    THEN [ret |-> FALSE, pairs |-> ps, streamer |-> st, started |-> FALSE]
    ELSE LET ps1 == [ps EXCEPT ![sym] = start_streaming(@)]
         IN  IF st.is_running
             THEN [ret |-> TRUE, pairs |-> ps1, streamer |-> st, started |-> FALSE]
             ELSE [start_all_enabled(st, ps1, n) EXCEPT !.ret = TRUE]

\* MultiPairDataStreamer.stop_pair(symbol) as one call: the pairs afterwards
stop_pair(ps, sym) ==
    IF ps[sym].is_streaming THEN [ps EXCEPT ![sym] = stop_streaming(@)] ELSE ps

\* MultiPairDataStreamer.stop_all as one call, its join and shutdown over:
\* the streamer afterwards
stop_all(st) ==
    IF ~st.is_running THEN st
    ELSE [signal_stop(st) EXCEPT
             !.pools_shut = IF st.executor = 0 THEN @ ELSE @ \cup {st.executor},
             !.executor = 0]

\* what a control call leaves in SystemManager
Returns(sys, running, op, success) ==
    [is_running |-> running, last_op |-> op, success |-> success]

\* SystemManager.start()
SystemStart ==
    IF system.is_running
    THEN /\ system' = Returns(system, TRUE, "start", FALSE)
         /\ UNCHANGED <<pairs, sigVars, stoVars, strVars>>
    ELSE LET r == start_all_enabled(streamer, pairs, Len(loops) + 1)
         IN  /\ r.started => Len(loops) < MaxLoops
             /\ pairs' = r.pairs
             /\ streamer' = r.streamer
             /\ loops' = IF r.started THEN Append(loops, NewLoop) ELSE loops
             /\ halted' = IF r.started THEN "no" ELSE halted
             /\ system' = Returns(system, TRUE, "start", TRUE)
             /\ UNCHANGED <<sigVars, stoVars, sources, tasks, callers, workers, clock, requests>>

\* SystemManager.stop()
SystemStop ==
    IF ~system.is_running
    THEN /\ system' = Returns(system, FALSE, "stop", FALSE)
         /\ UNCHANGED <<pairs, sigVars, stoVars, strVars>>
    ELSE /\ streamer' = stop_all(streamer)
         /\ pairs' = IF streamer.is_running THEN stop_streaming_pairs(pairs) ELSE pairs
         /\ halted' = IF streamer.is_running THEN "stopped" ELSE halted
         /\ system' = Returns(system, FALSE, "stop", TRUE)
         /\ UNCHANGED <<sigVars, stoVars, sources, loops, tasks, callers, workers, clock, requests>>

\* SystemManager.start_pair(symbol)
SystemStartPair(sym) ==
    LET r == start_pair(streamer, pairs, sym, Len(loops) + 1)
    IN  /\ r.started => Len(loops) < MaxLoops
        /\ pairs' = r.pairs
        /\ streamer' = r.streamer
        /\ loops' = IF r.started THEN Append(loops, NewLoop) ELSE loops
        /\ halted' = IF r.started THEN "no" ELSE halted
        /\ system' = Returns(system, system.is_running, "start_pair", r.ret)
        /\ UNCHANGED <<sigVars, stoVars, sources, tasks, callers, workers, clock, requests>>

\* SystemManager.stop_pair(symbol)
SystemStopPair(sym) ==
    /\ pairs' = stop_pair(pairs, sym)
    /\ system' = Returns(system, system.is_running, "stop_pair", pairs[sym].is_streaming)
    /\ UNCHANGED <<sigVars, stoVars, strVars>>

\* One control thread calls the SystemManager while pairs are enabled,
\* disabled and put in maintenance; the steps of the loop threads are left
\* out.
NextSys ==
    \/ SystemStart
    \/ SystemStop
    \/ \E sym \in Symbols :
          \/ SystemStartPair(sym)
          \/ SystemStopPair(sym)
          \/ Enable(sym)
          \/ Disable(sym)
          \/ SetMaintenance(sym)

SpecSys == Init /\ [][NextSys]_vars


(***************************************************************************)
(* Properties of the pair                                                  *)
(***************************************************************************)
Min(a, b) == IF a < b THEN a ELSE b

\* C1: a pair's price_history never holds more than max_history_size ticks,
\* and it holds the newest ticks delivered to the pair, in arrival order
\* (the oldest are the ones evicted).
C1_HistoryCapped ==
    \A sym \in Symbols :
        LET h == pairs[sym].price_history
            n == pairs[sym].total_updates
        IN  /\ Len(h) <= max_history_size
            /\ Len(h) = Min(n, max_history_size)
            /\ \A i \in 1..Len(h) : h[i].seq = n - Len(h) + i

\* two ticks beyond the cap have arrived and the two oldest are gone
C1_Witness ==
    \E sym \in Symbols :
        /\ pairs[sym].total_updates = max_history_size + 2
        /\ Len(pairs[sym].price_history) = max_history_size
        /\ pairs[sym].price_history[1].seq = 3
        /\ pairs[sym].price_history[max_history_size].seq = max_history_size + 2

\* C2: a streaming pair is enabled and not in maintenance.
C2_StreamingImpliesEnabled ==
    \A sym \in Symbols :
        pairs[sym].is_streaming =>
            pairs[sym].enabled /\ pairs[sym].status # MAINTENANCE

(***************************************************************************)
(* Properties of the signal manager                                        *)
(***************************************************************************)
Terminal == {HIT_TARGET, HIT_STOP, EXPIRED}

\* C3: no two signals that create_signal has returned share a signal_hash,
\* whether the earlier one is still active or closed, across updates and
\* restarts.
C3_HashesUnique ==
    \A a \in created : \A b \in created :
        a.signal.signal_hash = b.signal.signal_hash => a = b

\* C4: once a signal's persisted row holds a terminal status, the row's
\* status, closed_at and profit_loss never change again.
C4_TerminalFrozen ==
    [][ \A h \in DOMAIN db :
            db[h].status \in Terminal =>
                /\ h \in DOMAIN db'
                /\ db'[h].status = db[h].status
                /\ db'[h].closed_at = db[h].closed_at
                /\ db'[h].profit_loss = db[h].profit_loss ]_vars

\* C6: every signal in active_signals is ACTIVE; every signal whose status is
\* terminal, in memory (closed by update_signals in this run) or in the store,
\* has closed_at set and is not in active_signals, and the persisted row of a
\* signal closed in memory carries the same terminal status and a closed_at.
C6_ClosedConsistent ==
    /\ \A h \in DOMAIN active_signals :
          /\ active_signals[h].status = ACTIVE
          /\ active_signals[h].signal_hash = h
    /\ \A s \in closed :
          /\ s.status \in Terminal
          /\ s.closed_at # NoTime
          /\ s.signal_hash \notin DOMAIN active_signals
          /\ s.signal_hash \in DOMAIN db
          /\ db[s.signal_hash].status = s.status
          /\ db[s.signal_hash].closed_at # NoTime
    /\ \A h \in DOMAIN db :
          db[h].status \in Terminal =>
              /\ db[h].closed_at # NoTime
              /\ h \notin DOMAIN active_signals

\* the directional bias of the claim: *_BUY and DOUBLE_BOTTOM are bullish,
\* every other pattern is bearish
Bullish(pattern) == pattern \in {INDICATORS_BUY, DOUBLE_BOTTOM}

\* C8: no signal is created while an active signal of the same directional
\* bias has its entry within 1 % of the new signal's entry.
C8_NoOverlapCreated ==
    [][ \A c \in created' \ created :
            ~ \E h \in DOMAIN active_signals :
                /\ Bullish(active_signals[h].pattern_type) = Bullish(c.signal.pattern_type)
                /\ Abs(active_signals[h].entry_price - c.signal.entry_price) * 100
                       < c.signal.entry_price ]_vars

\* C10: every signal that is active when the process stops is loaded by the
\* next start with the same fields (hash, pattern, entry, target, stop,
\* confidence, status, created_at, activated).
C10_RecoveryKeepsFields ==
    [][ run' # run =>
            \A h \in DOMAIN active_signals :
                /\ h \in DOMAIN active_signals'
                /\ active_signals'[h] = active_signals[h] ]_vars

\* the checks the claim lists, on a signal
C5_Valid(s) ==
    /\ s.entry_price > 0 /\ s.target_price > 0 /\ s.stop_loss > 0 /\ s.price > 0
    /\ Abs(s.entry_price - s.price) * 100 <= 2 * s.price
    /\ Bullish(s.pattern_type) => s.target_price > s.entry_price /\ s.entry_price > s.stop_loss
    /\ ~Bullish(s.pattern_type) => s.stop_loss > s.entry_price /\ s.entry_price > s.target_price
    /\ 2 * Abs(s.target_price - s.entry_price) >= 3 * Abs(s.entry_price - s.stop_loss)
    /\ Abs(s.entry_price - s.stop_loss) * 100 <= 5 * s.entry_price

\* C5: every signal create_signal has returned, and every signal in
\* active_signals, has positive prices, an entry within 2 % of the price at
\* creation, target / entry / stop ordered by its direction, a reward of at
\* least 1.5 times its risk and a risk of at most 5 % of its entry.
C5_SignalsValid ==
    /\ \A c \in created : C5_Valid(c.signal)
    /\ \A h \in DOMAIN active_signals : C5_Valid(active_signals[h])

\* a bullish and a bearish signal were created, and one is active after a restart
C5_Witness ==
    /\ \E c \in created : Bullish(c.signal.pattern_type)
    /\ \E c \in created : ~Bullish(c.signal.pattern_type)
    /\ run > 0
    /\ DOMAIN active_signals # {}

\* C7: active_signals never holds more than max_active_signals signals, and
\* while it holds that many no candidate is accepted.
C7_ActiveCap ==
    /\ [](Cardinality(DOMAIN active_signals) <= 10)
    /\ [][ Cardinality(DOMAIN active_signals) >= 10 => created' = created ]_vars

\* ten signals are active and an eleventh was created: it was accepted after
\* one of the first ten had reached a terminal state
C7_Witness ==
    /\ Cardinality(DOMAIN active_signals) = 10
    /\ Cardinality(created) = 11
    /\ \E h \in DOMAIN db : db[h].status \in Terminal

\* the windows the claim lists, in units of 30 minutes
C9_Window(pattern) ==
    CASE pattern = "DOUBLE_BOTTOM" -> 8
      [] pattern = "HEAD_AND_SHOULDERS" -> 12
      [] pattern \in {"TRIANGLE_BREAKOUT_UP", "TRIANGLE_BREAKOUT_DOWN"} -> 4
      [] pattern \in {"INDICATORS_BUY", "INDICATORS_SELL"} -> 1
      [] OTHER -> 2

\* C9: two signals of one pattern created in the same process run are at
\* least the pattern's cooldown window apart.
C9_CooldownKept ==
    \A a \in created : \A b \in created :
        ( /\ a # b
          /\ a.run = b.run
          /\ a.signal.pattern_type = b.signal.pattern_type
          /\ a.signal.created_at <= b.signal.created_at )
        => b.signal.created_at - a.signal.created_at >= C9_Window(a.signal.pattern_type)

\* a pattern was created again exactly when its window had elapsed
C9_Witness ==
    \E a \in created : \E b \in created :
        /\ a # b
        /\ a.signal.pattern_type = b.signal.pattern_type
        /\ a.signal.pattern_type = "DOUBLE_BOTTOM"
        /\ b.signal.created_at - a.signal.created_at = 8

(***************************************************************************)
(* Properties of the data sources and of the streamer                      *)
(***************************************************************************)
\* the requests started so far through source s
RequestsOf(reqs, s) == {r \in reqs : r.source = s}

\* C11: once a source's is_available is false it stays false, and no request
\* is started through the source, in every step that is not reset_errors.
C11_UnavailableUntilReset ==
    [][ \A s \in HttpSources :
            (~sources[s].is_available /\ ~SourceResetErrors(s))
                => /\ ~sources'[s].is_available
                   /\ RequestsOf(requests', s) = RequestsOf(requests, s) ]_vars

\* the minimum spacing of the claim: 0.5 s for Binance, 1.0 s for CoinGecko
C12_Spacing(s) == IF s = "Binance" THEN 1 ELSE 2

\* C12: two requests started through one source, by whatever threads, start
\* at least the source's rate_limit apart.
C12_RequestsSpaced ==
    \A a \in requests : \A b \in requests :
        (a # b /\ a.source = b.source /\ a.at <= b.at)
            => b.at - a.at >= C12_Spacing(a.source)


\* the loop threads that are inside a collection cycle
CollectingLoops == {L \in 1..Len(loops) : loops[L].pc \in {"collect", "results"}}

\* C13: under any interleaving of the control calls, at most one
\* streaming-loop thread executes collection cycles.
C13_SingleLoop == Cardinality(CollectingLoops) <= 1


PendingTasks(ts) == {task \in ts : task.state = "pending"}

\* C14: after stop_all on a running streamer no loop thread begins a new
\* collection cycle until a later start; from the moment stop_all returns no
\* fetch task is in flight, none is submitted and no pair is streaming.
C14_StopHalts ==
    /\ [](halted = "stopped"
            => /\ PendingTasks(tasks) = {}
               /\ \A sym \in Symbols : ~pairs[sym].is_streaming)
    /\ [][ /\ halted # "no"
              => \A L \in 1..Len(loops) :
                    ~(loops[L].pc = "check" /\ loops'[L].pc = "collect")
           /\ halted = "stopped" => PendingTasks(tasks') \subseteq PendingTasks(tasks) ]_vars

\* stop_all has returned on a streamer that had collected ticks
C14_Witness ==
    /\ halted = "stopped"
    /\ streamer.successful_requests > 0
    /\ \E L \in 1..Len(loops) : loops[L].pc # "done"

\* C15 as stated: start_all_enabled returns False and starts nothing when the
\* streamer is running or no pair is enabled; otherwise it marks the enabled
\* pairs streaming, sets is_running, starts the loop thread and returns True.
C15_StartContract ==
    [][ \A c \in Callers :
          StartAllEnabled(c)
            => IF streamer.is_running \/ (\A sym \in Symbols : ~pairs[sym].enabled)
               THEN /\ callers'[c].result = "False"
                    /\ loops' = loops
                    /\ streamer'.pools_created = streamer.pools_created
               ELSE /\ \A sym \in Symbols : pairs[sym].enabled => pairs'[sym].is_streaming
                    /\ streamer'.is_running
                    /\ Len(loops') = Len(loops) + 1
                    /\ callers'[c].result = "True" ]_vars

\* a pair that start_streaming accepts
Startable(p) == p.enabled /\ p.status # MAINTENANCE

\* C15: start_all_enabled returns False and starts nothing when the streamer
\* is running, when no pair is enabled, and also when every enabled pair is in
\* maintenance; otherwise it marks the enabled pairs that are not in
\* maintenance streaming, sets is_running, starts the loop thread with a new
\* pool and returns True.
C15_StartContractAmended ==
    [][ \A c \in Callers :
          StartAllEnabled(c)
            => IF streamer.is_running \/ (\A sym \in Symbols : ~Startable(pairs[sym]))
               THEN /\ callers'[c].result = "False"
                    /\ loops' = loops
                    /\ streamer' = streamer
               ELSE /\ \A sym \in Symbols :
                          pairs'[sym].is_streaming
                              = (pairs[sym].is_streaming \/ Startable(pairs[sym]))
                    /\ streamer'.is_running /\ ~streamer'.stop_event
                    /\ Len(loops') = Len(loops) + 1
                    /\ loops'[Len(loops')].pc = "check"
                    /\ streamer'.pools_created = streamer.pools_created + 1
                    /\ callers'[c].result = "True" ]_vars

\* start_all_enabled has refused because its only enabled pairs are in
\* maintenance
C15_Witness ==
    /\ callers[CtlCaller].log = "none_started"
    /\ callers[CtlCaller].result = "False"
    /\ ~streamer.is_running
    /\ \E sym \in Symbols : pairs[sym].enabled


\* the priority of a source: Binance first, then CoinGecko, then Simulated
Priority(s) == IF s = "Binance" THEN 1 ELSE IF s = "CoinGecko" THEN 2 ELSE 3

\* the source that C16 asks a call to return: the first in priority among
\* the available sources that brings data; None when there is no such source
C16_Expected(r) ==
    LET good == {s \in r.available : r.outcome[s].ok}
    IN  IF good = {} THEN "None"
        ELSE CHOOSE s \in good : \A other \in good : Priority(s) <= Priority(other)

\* C16: _collect_pair_data queries the sources in priority order (Binance,
\* CoinGecko, Simulated), skips the unavailable ones, returns the tick of the
\* first source that brings data without querying any later source, and
\* returns None only when every available source failed; the source field
\* names the source that produced the data.
C16_PriorityOrder ==
    LET r == streamer.last_collect
    IN  r.called =>
          LET expected == C16_Expected(r)
              last     == IF expected = "None" THEN 3 ELSE Priority(expected)
          IN  /\ r.source = expected
              /\ r.raw_data = (IF expected = "None" THEN FAIL ELSE r.outcome[expected])
              /\ r.queried = SelectSeq(<<"Binance", "CoinGecko", "Simulated">>,
                                       LAMBDA s : s \in r.available /\ Priority(s) <= last)

\* a call that skipped Binance, unavailable after five failures, queried
\* CoinGecko in vain and returned the tick of the simulated source
C16_Witness ==
    LET r == streamer.last_collect
    IN  /\ r.called
        /\ "Binance" \notin r.available
        /\ r.queried = <<"CoinGecko", "Simulated">>
        /\ r.source = "Simulated"
        /\ r.raw_data.ok


\* C17: after add_price_data(t) with a well-formed tick, t is the newest
\* element of the series, error_count is 0, last_update is stamped,
\* successful_updates has grown by one, and failed_updates and error_count
\* have not grown.
C17_TickAccepted ==
    [][ \A sym \in Symbols : \A price \in TickPrices :
          AddPriceData(sym, price)
            => LET p == pairs[sym]
                   q == pairs'[sym]
               IN  /\ q.price_history[Len(q.price_history)] = Tick(sym, price)
                   /\ q.error_count = 0
                   /\ q.last_update = now
                   /\ q.successful_updates = p.successful_updates + 1
                   /\ q.failed_updates = p.failed_updates
                   /\ q.error_count <= p.error_count ]_vars


\* the tasks of loop L whose results the loop is about to process
CycleTasks(L) == {task \in tasks : task.loop = L}

\* C18: with an enabled streaming pair and sources that answer every fetch,
\* every collection cycle appends one tick to the pair's series and the pair
\* stays streaming: it does not enter MAINTENANCE and its error_count stays 0.
C18_CyclesKeepStreaming ==
    [][ \A L \in LoopIds :
          ( /\ LoopResults(L)
            /\ \A task \in CycleTasks(L) :
                  \A s \in SourceNames :
                      task.result.outcome[s].ok /\ task.result.outcome[s].price > 0 )
            => \A task \in CycleTasks(L) :
                  LET p == pairs[task.sym]
                      q == pairs'[task.sym]
                  IN  /\ Len(q.price_history) = Len(p.price_history) + 1
                      /\ q.is_streaming
                      /\ q.status # MAINTENANCE
                      /\ q.error_count = 0 ]_vars

\* the tick brought by a task repeats the newest tick of the pair's series
\* less than 2 s (4 units of 0.5 s) after it
IsDuplicate(p, r) ==
    /\ r.raw_data.ok
    /\ Len(p.price_history) > 0
    /\ LET last == p.price_history[Len(p.price_history)]
       IN  /\ last.source = r.source
           /\ last.price = r.raw_data.price
           /\ r.at - last.timestamp < 4

\* C19: a fetched tick with the source and the price of the pair's previous
\* tick that arrives less than 2 s after it is dropped: the series does not
\* grow for it and failed_requests is not incremented.
C19_DuplicatesDropped ==
    [][ \A L \in LoopIds :
          ( /\ LoopResults(L)
            /\ \A task \in CycleTasks(L) : IsDuplicate(pairs[task.sym], task.result) )
            => /\ \A task \in CycleTasks(L) :
                     pairs'[task.sym].price_history = pairs[task.sym].price_history
               /\ streamer'.failed_requests = streamer.failed_requests ]_vars

\* C20: every tick in a pair's series has a price above 0; a tick with
\* price <= 0 that a source delivers through _collect_pair_data and
\* add_price_data is never appended.
C20_PricesPositive ==
    \A sym \in Symbols : \A i \in 1..Len(pairs[sym].price_history) :
        pairs[sym].price_history[i].price > 0


\* C21: whenever _handle_error takes a pair's error_count to max_errors, the
\* pair's status becomes MAINTENANCE and is_streaming false in the same
\* step; and as long as the errors are not reset (error_count is still at
\* max_errors or above) start_streaming does not set is_streaming.
C21_MaintenanceHolds ==
    [][ \A sym \in Symbols :
          LET p == pairs[sym]
              q == pairs'[sym]
          IN  /\ (q.error_count = p.error_count + 1 /\ q.error_count >= q.max_errors)
                    => (q.status = MAINTENANCE /\ ~q.is_streaming)
              /\ (p.error_count >= p.max_errors /\ StartStreaming(sym))
                    => ~q.is_streaming ]_vars


C23_HealthyMeansRecentTick ==
    \A sym \in Symbols :
        LET p == pairs[sym]
        IN  is_streaming_healthy(p, now)
              <=> /\ p.is_streaming
                  /\ p.error_count < p.max_errors
                  /\ p.last_update # NoTime
                  /\ (now - p.last_update) * 1800 <= p.update_interval * 3


\* C24: while the streamer is running, the primary source (Binance) is
\* unavailable after source_max_errors consecutive failures, the other
\* sources are available and every streaming pair is healthy, health_check
\* reports status 'degraded'.
C24_DegradedOnPrimaryLoss ==
    ( /\ streamer.is_running
      /\ ~sources[Binance].is_available
      /\ sources[Binance].error_count >= source_max_errors
      /\ \A s \in SourceNames \ {Binance} : sources[s].is_available
      /\ get_streaming_pairs(pairs) # {}
      /\ \A sym \in get_streaming_pairs(pairs) : is_streaming_healthy(pairs[sym], now) )
    => health_check(streamer, sources, pairs, now) = "degraded"


(***************************************************************************)
(* Properties of the DatabaseManager                                       *)
(***************************************************************************)
\* C25: save_price_data_batch is all-or-nothing: for every call that has
\* returned, at any later time either it returned the length of its list and
\* every row of the list is in the table, or it returned 0 and no row of the
\* list is in the table.
C25_BatchAllOrNothing ==
    \A b \in store.batches :
        \/ b.count = Cardinality(b.xs) /\ b.xs \subseteq store.price_data
        \/ b.count = 0 /\ b.xs \cap store.price_data = {}

\* the sleeps _execute_with_retry has made after `failed` failed attempts
ExpectedWaits(failed) == [k \in 1..Min(failed, max_retries - 1) |-> retry_delay * k]

\* C26: a call of _execute_with_retry runs its statement at most max_retries
\* times, no attempt follows a successful one, after the k-th failed attempt
\* it has slept retry_delay * k seconds except after the last attempt, and
\* it returns an error result (save_price_data gives False) exactly when all
\* max_retries attempts failed, then without a row left in the table.
C26_RetryPolicy ==
    \A t \in DbThreads :
        LET th == dbthreads[t]
            n == Len(th.outcomes)
            failed == Cardinality({k \in 1..n : ~th.outcomes[k]})
        IN  /\ n <= max_retries
            /\ \A k \in 1..n : th.outcomes[k] => k = n
            /\ th.pc \in {"try", "exec"} => th.attempt = n /\ n < max_retries
            /\ th.waits = ExpectedWaits(failed)
            /\ th.pc = "sleep" => store.lock # t
            /\ (th.pc = "idle" /\ th.ret.op = "save_price_data")
                  => /\ th.ret.ok <=> th.outcomes[n]
                     /\ ~th.ret.ok <=> failed = max_retries
                     /\ th.ret.ok => th.rows \subseteq store.price_data
                     /\ ~th.ret.ok => th.rows \cap store.price_data = {}

\* a call that failed max_retries times, slept 1 s and 2 s, and returned False
C26_Witness ==
    \E t \in DbThreads :
        /\ dbthreads[t].pc = "idle"
        /\ dbthreads[t].ret = ExecReturn(FALSE)
        /\ dbthreads[t].outcomes = <<FALSE, FALSE, FALSE>>
        /\ dbthreads[t].waits = <<1, 2>>

\* the positions of a thread at which it executes statements, commits, copies
\* the database or replaces its file
InStore(th) == th.pc \in {"exec", "batch", "backup", "copy"}

\* C27: no two threads are inside operations on the connection or the file
\* at the same time, each such thread holds _lock, and _lock is not held by
\* a thread in its retry backoff sleep.
C27_StoreExclusive ==
    /\ \A t, u \in DbThreads : (t # u /\ InStore(dbthreads[t])) => ~InStore(dbthreads[u])
    /\ \A t \in DbThreads : InStore(dbthreads[t]) => store.lock = t
    /\ \A t \in DbThreads : dbthreads[t].pc = "sleep" => store.lock # t


\* C28: after any add_signal_hash the uniqueness set holds at most
\* max_signal_hashes hashes, and when it holds max_signal_hashes hashes
\* (here the first ones, in their order of arrival) the next add_signal_hash
\* leaves exactly the kept_signal_hashes most recently added ones, the new
\* hash included.
C28_KeepsMostRecent ==
    [][ \A h \in HashIds :
          (\E order \in IterationOrders : AddSignalHash(h, order))
            => /\ Cardinality(signal_hashes') <= max_signal_hashes
               /\ (signal_hashes = 1..max_signal_hashes /\ h = max_signal_hashes + 1)
                     => signal_hashes' = (h - kept_signal_hashes + 1)..h ]_vars


\* C29: analysing, with a fresh analyzer, a series of 100 samples with two
\* lows at 43000.00 at least 20 samples apart and a peak of 44000.00 between
\* them creates exactly one DOUBLE_BOTTOM signal, with entry 43344.00
\* (low * 1.008), stop 42355.00 (low * 0.985), target entry + 0.8 * height
\* and confidence at least 80.
C29_DoubleBottomSignal ==
    [][ ( /\ created = {}
          /\ AnalyzeMarket(Series(30, 60, 430000, 440000, 100), GoodIndicators) )
        => \E c \in created' :
              /\ created' = {c}
              /\ c.signal.pattern_type = DOUBLE_BOTTOM
              /\ c.signal.entry_price = 433440
              /\ c.signal.stop_loss = 423550
              /\ c.signal.target_price = 433440 + 8000
              /\ c.signal.confidence >= 80 ]_vars


\* C30: in one update_signals(price) call, an active signal that is activated
\* (before or by this call) and whose target price condition is met ends with
\* status HIT_TARGET, one whose stop condition is met with HIT_STOP, and
\* EXPIRED with profit_loss 0 is given only to a signal that hit neither.
C30_HitBeforeExpiry ==
    [][ \A price \in SigPrices :
          UpdateSignals(price)
            => \A h \in DOMAIN active_signals :
                 LET s   == active_signals[h]
                     act == s.activated \/ check_signal_activation(s, price)
                     hit_target == act /\ check_target_hit(s, price)
                     hit_stop   == act /\ ~check_target_hit(s, price) /\ check_stop_hit(s, price)
                     out == {c \in closed' \ closed : c.signal_hash = h}
                 IN  /\ hit_target => \E c \in out : c.status = HIT_TARGET
                     /\ hit_stop => \E c \in out : c.status = HIT_STOP
                     /\ \A c \in out : c.status = EXPIRED
                           => ~hit_target /\ ~hit_stop /\ c.profit_loss = ZeroPct ]_vars


\* C31: update_signals gives HIT_TARGET or HIT_STOP only to a signal that is
\* activated at that moment (before or by the same call); a signal that the
\* call leaves not activated stays ACTIVE or becomes EXPIRED, whatever the
\* price - also a price at or below the stop of a bullish signal.
C31_HitOnlyActivated ==
    [][ \A price \in SigPrices :
          UpdateSignals(price)
            => \A h \in DOMAIN active_signals :
                 LET s   == active_signals[h]
                     act == s.activated \/ check_signal_activation(s, price)
                     out == {c \in closed' \ closed : c.signal_hash = h}
                 IN  /\ \A c \in out : c.status \in {HIT_TARGET, HIT_STOP} => (act /\ c.activated)
                     /\ ~act => \/ /\ h \in DOMAIN active_signals'
                                   /\ active_signals'[h].status = ACTIVE
                                   /\ ~active_signals'[h].activated
                                \/ /\ h \notin DOMAIN active_signals'
                                   /\ \E c \in out : c.status = EXPIRED /\ ~c.activated ]_vars

\* a bullish signal still ACTIVE and not activated beside a signal closed by
\* the price 89.000, which is below the bullish signal's stop
C31_Witness ==
    /\ \E h \in DOMAIN active_signals :
          /\ IsBuyPattern(active_signals[h].pattern_type)
          /\ ~active_signals[h].activated
          /\ active_signals[h].status = ACTIVE
          /\ active_signals[h].stop_loss > 89000
    /\ \E c \in closed : c.status = HIT_TARGET /\ c.activated /\ c.target_price >= 89000


\* the expiry timeout of a signal: 24 h while not activated, 48 h once activated
Timeout(s) == IF s.activated THEN max_age_activated ELSE max_age_not_activated

\* C32: after an update_signals call every signal left in active_signals is
\* within its timeout (24 h not activated, 48 h activated), and every signal
\* the call closed that was beyond its timeout has status EXPIRED,
\* profit_loss 0 and closed_at set.
C32_ExpiryTimeouts ==
    [][ \A price \in SigPrices :
          UpdateSignals(price)
            => /\ \A h \in DOMAIN active_signals' :
                     now - active_signals'[h].created_at <= Timeout(active_signals'[h])
               /\ \A c \in closed' \ closed :
                     now - c.created_at > Timeout(c)
                        => /\ c.status = EXPIRED
                           /\ c.profit_loss = ZeroPct
                           /\ c.closed_at = now
               /\ \A h \in DOMAIN active_signals :
                     now - active_signals[h].created_at > max_age_activated
                        => \E c \in closed' \ closed : c.signal_hash = h /\ c.status = EXPIRED ]_vars

\* a signal closed by age before it was activated, at more than 24 h, beside
\* an activated signal older than 24 h that is still active
C32_Witness ==
    /\ \E c \in closed :
          /\ c.status = EXPIRED /\ ~c.activated /\ c.profit_loss = ZeroPct
          /\ c.closed_at - c.created_at > max_age_not_activated
    /\ \E h \in DOMAIN active_signals :
          /\ active_signals[h].activated
          /\ now - active_signals[h].created_at > max_age_not_activated


\* C33: a signal closed as HIT_TARGET records |target - entry| / entry * 100,
\* a profit above 0, and one closed as HIT_STOP records
\* -|entry - stop| / entry * 100, a loss below 0, bullish or bearish: the
\* contract prices count, not the price that triggered the close.
C33_ProfitFromContractPrices ==
    \A c \in closed :
       /\ c.status = HIT_TARGET
             => /\ c.profit_loss = Pct(Abs(c.target_price - c.entry_price) * 100, c.entry_price)
                /\ c.profit_loss.num > 0 /\ c.profit_loss.den > 0
       /\ c.status = HIT_STOP
             => /\ c.profit_loss = Pct(-(Abs(c.entry_price - c.stop_loss) * 100), c.entry_price)
                /\ c.profit_loss.num < 0 /\ c.profit_loss.den > 0

\* entry 100, target 110, stop 97: a bullish signal closed at its target by the
\* price 110.01 with +10 %, and a bearish signal (stop 103) closed at its stop
\* by the same price with -3 %
C33_Witness ==
    /\ \E c \in closed :
          /\ IsBuyPattern(c.pattern_type) /\ c.status = HIT_TARGET
          /\ c.entry_price = 100000 /\ c.target_price = 110000
          /\ c.profit_loss = Pct(1000000, 100000)
    /\ \E c \in closed :
          /\ ~IsBuyPattern(c.pattern_type) /\ c.status = HIT_STOP
          /\ c.entry_price = 100000 /\ c.stop_loss = 103000
          /\ c.profit_loss = Pct(-300000, 100000)


\* C38: in every reachable state the hash of every signal in active_signals
\* is in the uniqueness set, so that a candidate identical to an active
\* signal is found to be a duplicate.
C38_ActiveHashesKnown ==
    \A h \in DOMAIN active_signals : h \in signal_hashes


\* C34: a candidate that create_signal rejects changes nothing (active
\* signals, uniqueness set, cooldowns and persisted rows stay as they were),
\* and a candidate identical to an active signal is among the rejected ones:
\* no call accepts a candidate whose hash is the hash of an active signal.
C34_RejectedChangesNothing ==
    [][ \A k \in CompactIds, order \in IterationOrders :
          ( /\ k \in {Cardinality(DOMAIN db), Cardinality(DOMAIN db) + 1}
            /\ CreateSignalInOrder(CompactCandidate(k), GoodIndicators, CompactPrice(k), order) )
            => IF can_create_signal(active_signals, signal_hashes, pattern_cooldowns,
                                    CompactCandidate(k), CompactPrice(k), GoodIndicators, now)
               THEN generate_signal_hash(CompactCandidate(k), CompactPrice(k))
                        \notin DOMAIN active_signals
               ELSE UNCHANGED <<active_signals, signal_hashes, pattern_cooldowns, db>> ]_vars


\* C37: every signal in active_signals has its persisted row: a row with the
\* same signal_hash (the UNIQUE column admits one at most), with status
\* ACTIVE and with the same entry, target and stop.
C37_ActiveSignalsPersisted ==
    \A h \in DOMAIN active_signals :
       /\ h \in DOMAIN db
       /\ db[h].status = ACTIVE
       /\ db[h].entry_price = active_signals[h].entry_price
       /\ db[h].target_price = active_signals[h].target_price
       /\ db[h].stop_loss = active_signals[h].stop_loss


\* C35: a malformed response (HTTP success, body undecodable or fields
\* missing) counts like a failed request: the call leaves error_count one
\* above what it found, and at 5 the source is unavailable.
C35_MalformedCounts ==
    [][ \A w \in Workers :
          RespondMalformed(w)
            => LET s == workers[w].src
               IN  /\ sources'[s].error_count = sources[s].error_count + 1
                   /\ sources'[s].error_count >= source_max_errors
                         => ~sources'[s].is_available ]_vars


\* a loop thread is past the start of a collection cycle (waiting for the
\* results, in the sleep of the except branch, or in the wait after the
\* cycle), early enough for the end of its wait to lie within the times
\* considered
InCycle(L) ==
    /\ L <= Len(loops)
    /\ \/ loops[L].pc \in {"wait", "errsleep"} /\ loops[L].until <= MaxClockLoop
       \/ loops[L].pc = "results"
             /\ loops[L].until + streamer_update_interval <= MaxClockLoop

\* C36: whatever happens inside a collection cycle (a fetch that fails, a
\* tick that cannot be committed, the 30 s deadline), the loop thread starts
\* another cycle later, unless the streamer is stopped meanwhile.
C36_LoopSurvivesErrors ==
    \A L \in LoopIds :
       [](InCycle(L) => <>(\/ L <= Len(loops) /\ loops[L].pc = "collect"
                           \/ ~loop_continues(streamer)))

\* the loop starts a cycle although no cycle has completed and the deadline
\* of the first one and the sleep of the except branch are over
C36_Witness ==
    \E L \in 1..Len(loops) :
       /\ loops[L].pc = "collect"
       /\ loop_continues(streamer)
       /\ streamer.total_requests = 0
       /\ clock >= ClockStart + as_completed_timeout + error_sleep


\* C39: after every control call SystemManager.is_running and the streamer's
\* is_running agree: a start that reports success has the streaming loop
\* running, and after a call of stop - also when the loop was started
\* through start_pair - the streamer is not running.
C39_RunningFlagsAgree ==
    /\ system.is_running = streamer.is_running
    /\ system.last_op = "start" /\ system.success => streamer.is_running
    /\ system.last_op = "stop" => ~streamer.is_running

\* C40: start_pair(sym) and stop_pair(sym) change the streaming flag of sym
\* alone: is_streaming and status of every other pair stay as they were,
\* whether the loop was running or not.
C40_OnlyThatPair ==
    [][ \A sym \in Symbols :
          SystemStartPair(sym) \/ SystemStopPair(sym)
            => \A other \in Symbols \ {sym} :
                  /\ pairs'[other].is_streaming = pairs[other].is_streaming
                  /\ pairs'[other].status = pairs[other].status ]_vars

====
